---- MODULE Spec2Model ----
(***************************************************************************)
(* Verification model of the e-book assistant backend                      *)
(* (itsomdeshmane/e-book-assistant): the chunker, the page extractor, the  *)
(* vector-store adapter, the answering engine's relevance gate and the     *)
(* upload / background-ingestion / delete life cycle of a Document.        *)
(*                                                                         *)
(* The module holds several specifications over one set of variables:      *)
(*   SpecChunk    chunk_text (app/chunker.py)                              *)
(*   SpecExtract  extract_pages_text and the OCR retry gate                *)
(*   SpecAnswer   answer_query (app/query_engine.py)                       *)
(*   SpecVector   the vector-store adapter (app/vector_db.py)              *)
(*   Spec         upload, background ingestion, delete, summarize, ask,    *)
(*                interview questions and the status read                  *)
(*   SpecUploads  the upload and delete handlers with more uploads         *)
(*   SpecMeaning  is_text_meaningful (app/pdf_processor.py)                *)
(*   SpecAccess   the service with one upload and the requests of users    *)
(*                on documents they do not own                             *)
(*   SpecValidate upload_pdf with the uploads that validation refuses      *)
(*   SpecBoot     the start of the process under every environment, and    *)
(*                the first operations of the serving process             *)
(*   SpecEngine   one call of answer_query, of summarize, or of            *)
(*                interview_questions (app/query_engine.py, routes_rag.py) *)
(*   SpecIngest   Spec with a scheduler that keeps every queued background *)
(*                task running                                             *)
(*   SpecChunkLive  SpecChunk with the call running to its end             *)
(*   SpecSufficient  has_sufficient_text_data and the branch on it at the  *)
(*                head of answer_query and generate_interview_questions    *)
(* Each specification leaves the variables of the others at their idle     *)
(* values.                                                                 *)
(***************************************************************************)
EXTENDS Integers, Sequences, FiniteSets, TLC

VARIABLES
    \* ---- chunk_text (app/chunker.py) ----
    ck_T,        \* the text passed to chunk_text
    ck_S,        \* CHUNK_SIZE of this run
    ck_O,        \* CHUNK_OVERLAP of this run
    ck_text,     \* local `text` (after strip)
    ck_start,    \* local `start`
    ck_chunks,   \* local `chunks`: records [text, lo], lo = offset in ck_text
    ck_ret,      \* the returned list (same records), <<>> until returned
    ck_pc        \* "strip" | "loop" | "filter" | "done" | "idle"

chunkVars == <<ck_T, ck_S, ck_O, ck_text, ck_start, ck_chunks, ck_ret, ck_pc>>

VARIABLES
    \* ---- extract_pages_text and the retry gate of the ingestion ----
    ex_pdf,      \* the PDF: a sequence of pages, each "good" or "poor"
    ex_cfg,      \* AZURE_DI_ENDPOINT and AZURE_DI_KEY are both set
    ex_first,    \* outcome of extract_with_force(path)
    ex_second,   \* outcome of extract_with_force(path, force_ocr=True)
    ex_calls,    \* the force_ocr argument of every invocation, in order
    ex_pages,    \* local `pages` of the caller
    ex_pc        \* "first" | "gate" | "retry" | "accepted" | "raised" | "idle"

extractVars == <<ex_pdf, ex_cfg, ex_first, ex_second, ex_calls, ex_pages, ex_pc>>

VARIABLES
    \* ---- answer_query (app/query_engine.py) ----
    aq_top_k,       \* argument top_k
    aq_question,    \* "text" | "blank": the question has / has no non-space character
    aq_queried,     \* col.query has returned
    aq_matches,     \* what col.query returned: sequence of [text, distance]
    aq_context,     \* the chunks joined into `context`; <<>> while not built
    aq_completions, \* number of _client.chat.completions.create calls made
    aq_result,      \* what answer_query returned / raised; "none" while running
    aq_llm,         \* what the completion call did; "none" while not called
    aq_excerpt,     \* the part of `context` inside a fallback answer
    aq_pc           \* "check" | "lazy" | "embed" | "query" | "gate" | "complete" | "done" | "idle"

answerVars == <<aq_top_k, aq_question, aq_queried, aq_matches, aq_context,
                aq_completions, aq_result, aq_llm, aq_excerpt, aq_pc>>

VARIABLES
    \* ---- summarize and generate_interview_questions (app/query_engine.py),
    \*      and the storing step of the interview_questions route ----
    rg_op,       \* "summarize" | "interview_questions"
    rg_docs,     \* the chunks the collection holds for the document, in order
    rg_flat,     \* local `flat_docs`
    rg_llm,      \* what the completion call did; "none" while not called
    rg_result,   \* what the function returned or raised
    rg_stored,   \* an InterviewSession row was written
    rg_pc        \* "start" | "lazy" | "fetch" | "complete" | "route" | "done" | "idle"

ragVars == <<rg_op, rg_docs, rg_flat, rg_llm, rg_result, rg_stored, rg_pc>>

VARIABLES
    \* ---- the start of the process (app/config.py, app/main.py) ----
    environ,     \* os.environ: variable name -> "unset" | "empty" | "set"
    boot_pc,     \* "import" | "lifespan" | "serving" | "exited" | "idle"
    rt_log       \* the run-time operations so far: <<operation, outcome>>

bootVars == <<environ, boot_pc, rt_log>>

VARIABLES
    \* ---- the vector store (Pinecone index) behind app/vector_db.py ----
    index,       \* the stored vectors: records [ns, id, metadata, for_user, for_doc]
    uuids,       \* number of uuid4() values drawn so far
    vx_last      \* the last adapter call and what it returned

vectorVars == <<index, uuids, vx_last>>

VARIABLES
    \* ---- the service: relational store, blob store, requests, tasks ----
    docs,        \* Document table: doc id -> row, or NoDoc
    next_doc_id, \* the primary key the next inserted Document gets
    blobs,       \* names of the blobs in the container
    uploads,     \* the upload requests received, in order of arrival, each
                 \* with the state of the background task it queued
    convs,       \* doc ids that have Conversation rows
    isess,       \* doc ids that have InterviewSession rows
    del_out,     \* what delete_document did, when the step just taken was one
    events,      \* how many requests were taken up and collaborators failed
    resp,        \* the HTTP error the step just taken answered with, if any
    purged       \* <<owner, doc id>> of the deleted documents whose chunk
                 \* deletion reported no error

serviceVars == <<docs, next_doc_id, blobs, uploads, convs, isess, del_out, events,
                 resp, purged>>

VARIABLES
    \* ---- is_text_meaningful (app/pdf_processor.py) ----
    mt_text,     \* the argument `text`
    mt_ret,      \* the returned bool (FALSE until returned)
    mt_pc        \* "call" | "done" | "idle"

meaningVars == <<mt_text, mt_ret, mt_pc>>

VARIABLES
    \* ---- has_sufficient_text_data (app/query_engine.py) ----
    hs_chunks,   \* the document's chunks as col.get returns them
    hs_op,       \* the operation that asked: "answer" | "interview" | "none"
    hs_ret,      \* the returned bool (FALSE until returned)
    hs_lazy,     \* whether the operation went into on-the-fly indexing
    hs_pc        \* "call" | "done" | "idle"

sufficientVars == <<hs_chunks, hs_op, hs_ret, hs_lazy, hs_pc>>

vars == <<chunkVars, extractVars, answerVars, vectorVars, serviceVars, meaningVars, ragVars, bootVars, sufficientVars>>

----------------------------------------------------------------------------
(* Bounds of the model *)

\* longest text handed to chunk_text in SpecChunk
MaxTextLen == 6
\* largest CHUNK_SIZE tried in SpecChunk
MaxSize == 3
\* most pages of a PDF handed to extract_pages_text in SpecExtract
MaxPdfLen == 4
\* largest top_k passed to answer_query in SpecAnswer
MaxTopK == 3
\* most uuid4() values drawn in SpecVector
MaxUuids == 4
\* most Document rows ever created (primary keys 1..MaxDocs)
MaxDocs == 2
\* most upload requests with a valid PDF in Spec
MaxUploads == 2
\* most upload requests with a valid PDF in SpecUploads
MaxDedupUploads == 3
\* longest text handed to is_text_meaningful in SpecMeaning
MaxMeaningLen == 8
\* most chunks a document has in the index in SpecSufficient
MaxIndexed == 4
\* most upload requests with a valid PDF in SpecAccess
MaxAccessUploads == 1
\* most upload requests with a valid PDF in SpecValidate
MaxValidUploads == 2
\* most events in one run of the service: upload, ask, summarize and
\* interview_questions requests that write, and failures of a collaborator
\* (blob store, OCR, embedding provider, vector store, database session)
MaxEvents == 3

----------------------------------------------------------------------------
(* Text: a Python str is a sequence of characters; " " stands for every    *)
(* whitespace character, "a" for every other one.                          *)

Chars == {"a", " "}

IsSpace(c) == c = " "

Texts(n) == UNION {[1..k -> Chars] : k \in 0..n}

Min(a, b) == IF a < b THEN a ELSE b

\* number of leading whitespace characters of t
RECURSIVE LeadSpaces(_)
LeadSpaces(t) ==
    IF t = <<>> THEN 0
    ELSE IF IsSpace(Head(t)) THEN 1 + LeadSpaces(Tail(t)) ELSE 0

\* number of trailing whitespace characters of t
RECURSIVE TrailSpaces(_)
TrailSpaces(t) ==
    IF t = <<>> THEN 0
    ELSE IF IsSpace(t[Len(t)]) THEN 1 + TrailSpaces(SubSeq(t, 1, Len(t) - 1)) ELSE 0

\* str.strip()
Strip(t) ==
    IF LeadSpaces(t) = Len(t) THEN <<>>
    ELSE SubSeq(t, LeadSpaces(t) + 1, Len(t) - TrailSpaces(t))

\* python slice text[lo:hi] with 0-based lo, exclusive hi
Slice(t, lo, hi) == SubSeq(t, lo + 1, hi)

----------------------------------------------------------------------------
(* chunk_text, app/chunker.py:3-12, as a step machine                      *)

\* the step `start += CHUNK_SIZE - CHUNK_OVERLAP` with the overlap dropped
NextStart_NoOverlap(start, S, O) == start + S

\* chunker.py:11  start += CHUNK_SIZE - CHUNK_OVERLAP
NextStart(start, S, O) == start + S - O

\* [c for c in chunks if c.strip()] keeping every chunk
FilterChunks_KeepAll(chunks) == chunks

\* chunker.py:12  [c for c in chunks if c.strip()]
FilterChunks(chunks) == SelectSeq(chunks, LAMBDA c : Strip(c.text) # <<>>)

ChunkInit ==
    /\ ck_S \in 1..MaxSize
    /\ ck_O \in 0..(ck_S - 1)
    /\ ck_T \in Texts(MaxTextLen)
    /\ ck_text = <<>>
    /\ ck_start = 0
    /\ ck_chunks = <<>>
    /\ ck_ret = <<>>
    /\ ck_pc = "strip"

ChunkIdle ==
    /\ ck_T = <<>> /\ ck_S = 1 /\ ck_O = 0 /\ ck_text = <<>> /\ ck_start = 0
    /\ ck_chunks = <<>> /\ ck_ret = <<>> /\ ck_pc = "idle"

\* chunker.py:4-6  text = text.strip(); chunks = []; start = 0
ChunkStrip ==
    /\ ck_pc = "strip"
    /\ ck_text' = Strip(ck_T)
    /\ ck_chunks' = <<>>
    /\ ck_start' = 0
    /\ ck_pc' = "loop"
    /\ UNCHANGED <<ck_T, ck_S, ck_O, ck_ret>>

\* chunker.py:7-11  one evaluation of the while condition and, when it
\* holds, one iteration of the body
ChunkLoop ==
    /\ ck_pc = "loop"
    /\ IF ck_start < Len(ck_text)
       THEN LET end == Min(ck_start + ck_S, Len(ck_text)) IN
            /\ ck_chunks' = Append(ck_chunks,
                                   [text |-> Slice(ck_text, ck_start, end), lo |-> ck_start])
            /\ IF end = Len(ck_text)
               THEN ck_pc' = "filter" /\ ck_start' = ck_start
               ELSE ck_pc' = "loop" /\ ck_start' = NextStart(ck_start, ck_S, ck_O)
       ELSE ck_pc' = "filter" /\ UNCHANGED <<ck_chunks, ck_start>>
    /\ UNCHANGED <<ck_T, ck_S, ck_O, ck_text, ck_ret>>

\* chunker.py:12  return [c for c in chunks if c.strip()]
ChunkReturn ==
    /\ ck_pc = "filter"
    /\ ck_ret' = FilterChunks(ck_chunks)
    /\ ck_pc' = "done"
    /\ UNCHANGED <<ck_T, ck_S, ck_O, ck_text, ck_start, ck_chunks>>

ChunkNext == ChunkStrip \/ ChunkLoop \/ ChunkReturn

----------------------------------------------------------------------------
(* extract_pages_text, app/pdf_processor.py:264-366                        *)
(*                                                                         *)
(* A page of the PDF is "good" when reader.pages[i].extract_text() returns *)
(* text that is_text_meaningful accepts, and "poor" when extract_text      *)
(* raises or returns text that is_text_meaningful rejects (empty text      *)
(* included).  The environment of one invocation is a record               *)
(*   reader : PdfReader(path) opened the file                              *)
(*   render : batch number -> "ok" | "fail"  (render_pdf_pages_batch       *)
(*            returned images, from either renderer, or raised)            *)
(*   ocr    : page number -> "text" | "empty" | "raise"                    *)
(*            (ocr_with_azure_for_page returned text, returned no text,    *)
(*            or raised)                                                   *)

\* config.py:39  MAX_PDF_PAGES (environment-configurable; a small setting)
MAX_PDF_PAGES == 3
\* config.py:40  PROCESS_PAGES_BATCH_SIZE (environment-configurable)
PROCESS_PAGES_BATCH_SIZE == 2
\* the confidence reported for an OCR result that has text (0..100)
OcrConf == 90

PageKinds == {"good", "poor"}
Pdfs(n) == UNION {[1..k -> PageKinds] : k \in 0..n}

NoText == <<>>
\* the (stripped) text-layer text of page i, and what OCR reads on page i
LayerText(i) == <<"layer", i>>
OcrText(i) == <<"ocr", i>>

OcrOutcomes == {"text", "empty", "raise"}
RenderOutcomes == {"ok", "fail"}
\* batch numbers: batch_start \div PROCESS_PAGES_BATCH_SIZE
BatchNumbers == 0..((MAX_PDF_PAGES - 1) \div PROCESS_PAGES_BATCH_SIZE)
Envs ==
    [reader : BOOLEAN,
     render : [BatchNumbers -> RenderOutcomes],
     ocr    : [1..MAX_PDF_PAGES -> OcrOutcomes]]

\* pdf_processor.py:299  is_text_meaningful(txt) on the text layer of a page
page_is_meaningful(pdf, i) == pdf[i] = "good"

\* pdf_processor.py:291-303  the text-layer pass
TextLayerResults(pdf, num_pages) ==
    [i \in 1..Min(num_pages, MAX_PDF_PAGES) |->
        IF page_is_meaningful(pdf, i)
        THEN [page |-> i, text |-> LayerText(i), source |-> "text", confidence |-> 100]
        ELSE [page |-> i, text |-> NoText, source |-> "needs_ocr", confidence |-> 0]]

\* the skip test without the source check: every rendered page is OCR'd
ShouldSkip_Never(force_ocr, results, page_idx) == FALSE

\* pdf_processor.py:327  skip if we already have good text for this page
ShouldSkip(force_ocr, results, page_idx) ==
    /\ ~force_ocr
    /\ page_idx < Len(results)
    /\ results[page_idx + 1].source # "needs_ocr"

\* pdf_processor.py:344-355  store the OCR outcome of page_idx
StoreOcr(results, page_idx, outcome) ==
    LET r == IF outcome = "text"
             THEN [page |-> page_idx + 1, text |-> OcrText(page_idx + 1),
                   source |-> "azure", confidence |-> OcrConf]
             ELSE [page |-> page_idx + 1, text |-> NoText,
                   source |-> "azure", confidence |-> 0]
    IN  IF page_idx < Len(results)
        THEN [results EXCEPT ![page_idx + 1] = r]
        ELSE Append(results, r)

\* pdf_processor.py:168-207  the number of images a successful render of
\* max_pages pages from start_page returns
RenderedCount(pdf, start_page, max_pages) ==
    LET end_page == Min(Min(start_page + max_pages, MAX_PDF_PAGES), Len(pdf))
    IN  IF end_page > start_page THEN end_page - start_page ELSE 0

\* pdf_processor.py:323-358  the loop over the images of one batch
RECURSIVE OcrImages(_, _, _, _, _, _)
OcrImages(st, force_ocr, env, batch_start, batch_idx, nimg) ==
    IF batch_idx >= nimg THEN st
    ELSE LET page_idx == batch_start + batch_idx
             nxt == IF ShouldSkip(force_ocr, st.results, page_idx) THEN st
                    ELSE [st EXCEPT
                            !.results = StoreOcr(@, page_idx, env.ocr[page_idx + 1]),
                            !.ocrCalls = Append(@, [page |-> page_idx + 1,
                                                    outcome |-> env.ocr[page_idx + 1]])]
         IN  OcrImages(nxt, force_ocr, env, batch_start, batch_idx + 1, nimg)

\* a batch that asks for all the pages left
batch_size_Rest(batch_start, total_pages) == total_pages - batch_start

\* pdf_processor.py:317  batch_size, the max_pages of the render request
batch_size(batch_start, total_pages) ==
    Min(PROCESS_PAGES_BATCH_SIZE, total_pages - batch_start)

\* pdf_processor.py:313-363  the loop over the batches
RECURSIVE OcrBatches(_, _, _, _, _, _)
OcrBatches(st, pdf, force_ocr, env, batch_start, total_pages) ==
    IF batch_start >= total_pages THEN st
    ELSE LET max_pages == batch_size(batch_start, total_pages)
             outcome == env.render[batch_start \div PROCESS_PAGES_BATCH_SIZE]
             logged == [st EXCEPT !.renders = Append(@, [start |-> batch_start,
                                                         max_pages |-> max_pages,
                                                         outcome |-> outcome])]
             nxt == IF outcome = "fail" THEN logged
                    ELSE OcrImages(logged, force_ocr, env, batch_start, 0,
                                   RenderedCount(pdf, batch_start, max_pages))
         IN  OcrBatches(nxt, pdf, force_ocr, env,
                        batch_start + PROCESS_PAGES_BATCH_SIZE, total_pages)

\* pdf_processor.py:264-366  extract_pages_text(path, force_ocr) once the
\* configuration check of line 272 has passed.  The value is the returned
\* list `results` with the log of the OCR calls and render requests made.
extract_pages_text(pdf, force_ocr, env) ==
    LET opened == ~force_ocr /\ env.reader
        num_pages == IF opened THEN Min(Len(pdf), MAX_PDF_PAGES) ELSE 0
        st0 == [results |-> IF opened THEN TextLayerResults(pdf, num_pages) ELSE <<>>,
                ocrCalls |-> <<>>,
                renders |-> <<>>]
        needs == \E i \in 1..Len(st0.results) : st0.results[i].source = "needs_ocr"
        total_pages == IF num_pages > 0 THEN num_pages ELSE MAX_PDF_PAGES
    IN  IF force_ocr \/ needs
        THEN OcrBatches(st0, pdf, force_ocr, env, 0, total_pages)
        ELSE st0

NoCall == [results |-> <<>>, ocrCalls |-> <<>>, renders |-> <<>>]

\* the gate counting only pages whose source is the text layer
meaningful_pages_TextLayerOnly(pages) ==
    {i \in 1..Len(pages) : pages[i].source = "text"}

\* routes_docs.py:141  [p for p in pages if p.get("text") and p.get("text").strip()]
meaningful_pages(pages) ==
    {i \in 1..Len(pages) : pages[i].text # NoText}

ExtractInit ==
    /\ ex_pdf \in Pdfs(MaxPdfLen)
    /\ ex_cfg \in BOOLEAN
    /\ ex_first = NoCall
    /\ ex_second = NoCall
    /\ ex_calls = <<>>
    /\ ex_pages = <<>>
    /\ ex_pc = "first"

ExtractIdle ==
    /\ ex_pdf = <<>> /\ ex_cfg = TRUE /\ ex_first = NoCall /\ ex_second = NoCall
    /\ ex_calls = <<>> /\ ex_pages = <<>> /\ ex_pc = "idle"

\* routes_docs.py:138  pages = extract_with_force(path)
\* (pdf_processor.py:272 raises when the OCR service is not configured)
ExtractFirstPass ==
    /\ ex_pc = "first"
    /\ ex_calls' = Append(ex_calls, FALSE)
    /\ IF ~ex_cfg
       THEN /\ ex_pc' = "raised"
            /\ UNCHANGED <<ex_first, ex_pages>>
       ELSE \E env \in Envs :
            /\ ex_first' = extract_pages_text(ex_pdf, FALSE, env)
            /\ ex_pages' = ex_first'.results
            /\ ex_pc' = "gate"
    /\ UNCHANGED <<ex_pdf, ex_cfg, ex_second>>

\* routes_docs.py:141-148  the decision gate
ExtractGate ==
    /\ ex_pc = "gate"
    /\ ex_pc' = IF meaningful_pages(ex_pages) = {} THEN "retry" ELSE "accepted"
    /\ UNCHANGED <<ex_pdf, ex_cfg, ex_first, ex_second, ex_calls, ex_pages>>

\* routes_docs.py:146  pages = extract_with_force(path, force_ocr=True)
ExtractRetry ==
    /\ ex_pc = "retry"
    /\ ex_calls' = Append(ex_calls, TRUE)
    /\ \E env \in Envs :
        /\ ex_second' = extract_pages_text(ex_pdf, TRUE, env)
        /\ ex_pages' = ex_second'.results
    /\ ex_pc' = "accepted"
    /\ UNCHANGED <<ex_pdf, ex_cfg, ex_first>>

ExtractNext == ExtractFirstPass \/ ExtractGate \/ ExtractRetry

----------------------------------------------------------------------------
(* answer_query, app/query_engine.py:176-313                               *)
(*                                                                         *)
(* Distances are counted in hundredths (0.7 is 70); the mean is compared   *)
(* with the threshold in exact arithmetic.                                 *)

\* query_engine.py:263  relevance_threshold = 0.7
relevance_threshold == 70

\* distances a match can have: below, at and above the threshold
DistanceValues == {40, 70, 71, 100}
ChunkTexts == {"c1", "c2"}
Matches == [text : ChunkTexts, distance : DistanceValues]
MatchLists(n) == UNION {[1..k -> Matches] : k \in 0..n}

RECURSIVE SumDistances(_)
SumDistances(ms) ==
    IF ms = <<>> THEN 0 ELSE Head(ms).distance + SumDistances(Tail(ms))

\* query_engine.py:19-28  `_client`.  query_engine imports app.embeddings
\* first (line 4), which raises at import unless OPENAI_API_KEY is set and
\* the same OpenAI(api_key=...) construction succeeded (embeddings.py:12-20),
\* so `_client` is set whenever answer_query can run.
client_configured == TRUE

\* the gate with >= in place of >
RelevanceRefused_AtThreshold(ms) ==
    SumDistances(ms) >= relevance_threshold * Len(ms)

\* query_engine.py:262-265  avg_distance > relevance_threshold, with
\* avg_distance = sum(distances[0]) / len(distances[0])
RelevanceRefused(ms) ==
    SumDistances(ms) > relevance_threshold * Len(ms)

\* query_engine.py:253-255, 269  flat_docs and context = "\n\n".join(flat_docs)
ContextOf(ms) == [k \in 1..Len(ms) |-> ms[k].text]

\* the characters of a stored chunk: character j of chunk c is <<c, j>>
ChunkLen(c) == CASE c = "c1" -> 3 [] c = "c2" -> 2 [] c = "c3" -> 1 [] OTHER -> 2
ChunkChars(c) == [j \in 1..ChunkLen(c) |-> <<c, j>>]
\* a character of a separator: " ", or one of the two of "\n\n"
Blank == <<"sep", 1>>
Newline == <<"sep", 2>>

\* sep.join(chunks) on the characters of the chunks
RECURSIVE Join(_, _)
Join(chunks, sep) ==
    IF chunks = <<>> THEN <<>>
    ELSE IF Len(chunks) = 1 THEN ChunkChars(chunks[1])
    ELSE ChunkChars(chunks[1]) \o sep \o Join(Tail(chunks), sep)

\* python slice text[:n]
Take(t, n) == SubSeq(t, 1, Min(n, Len(t)))

\* query_engine.py:171, 313  the 1000 of preview[:1000] and context[:1000]
\* (scaled to the chunks)
FALLBACK_CHARS == 5
\* query_engine.py:170  the 3 of flat_docs[:3]
FALLBACK_CHUNKS == 3

\* the fallback cut keeping the whole text
cut_Whole(t) == t

\* query_engine.py:171, 313  [:1000]
cut(t) == Take(t, FALLBACK_CHARS)

\* query_engine.py:313  context[:1000], context = "\n\n".join(flat_docs)
fallback_answer(context) == cut(Join(context, <<Newline, Newline>>))

\* query_engine.py:170-171  preview = " ".join(flat_docs[:3]); preview[:1000]
fallback_summary(flat_docs) == cut(Join(Take(flat_docs, FALLBACK_CHUNKS), <<Blank>>))

AnswerInit ==
    /\ aq_top_k \in 1..MaxTopK
    /\ aq_question \in {"text", "blank"}
    /\ aq_queried = FALSE
    /\ aq_matches = <<>>
    /\ aq_context = <<>>
    /\ aq_completions = 0
    /\ aq_result = "none"
    /\ aq_llm = "none"
    /\ aq_excerpt = <<>>
    /\ aq_pc = "check"

AnswerIdle ==
    /\ aq_top_k = 1 /\ aq_question = "text" /\ aq_queried = FALSE /\ aq_matches = <<>>
    /\ aq_context = <<>> /\ aq_completions = 0 /\ aq_result = "none"
    /\ aq_llm = "none" /\ aq_excerpt = <<>>
    /\ aq_pc = "idle"

\* query_engine.py:186  has_sufficient_text_data(user_id, doc_id): true,
\* false, or the collection read raises (outside any try)
AqCheckSufficient ==
    /\ aq_pc = "check"
    /\ \E outcome \in {"sufficient", "insufficient", "raise"} :
        CASE outcome = "sufficient"   -> aq_pc' = "embed" /\ UNCHANGED aq_result
          [] outcome = "insufficient" -> aq_pc' = "lazy" /\ UNCHANGED aq_result
          [] outcome = "raise"        -> aq_pc' = "done" /\ aq_result' = "exception"
    /\ UNCHANGED <<aq_top_k, aq_question, aq_queried, aq_matches, aq_context, aq_completions,
                   aq_llm, aq_excerpt>>

\* query_engine.py:188-238  on-the-fly indexing.  The Document is missing or
\* not owned (192); the local file does not exist (199); extraction raises or
\* a page has text, and chunk_text(text, chunk_size=1000, overlap=200) raises
\* TypeError because chunk_text takes one argument (221, 236-238); or no
\* page has text and the loop body never runs.
AqLazyIndex ==
    /\ aq_pc = "lazy"
    /\ \E outcome \in {"doc_missing", "no_local_file", "extract_raised",
                       "page_with_text", "no_page_text"} :
        CASE outcome = "doc_missing" ->
                aq_pc' = "done" /\ aq_result' = "not_found"
          [] outcome \in {"extract_raised", "page_with_text"} ->
                aq_pc' = "done" /\ aq_result' = "failed_processing"
          [] outcome \in {"no_local_file", "no_page_text"} ->
                aq_pc' = "embed" /\ UNCHANGED aq_result
    /\ UNCHANGED <<aq_top_k, aq_question, aq_queried, aq_matches, aq_context, aq_completions,
                   aq_llm, aq_excerpt>>

\* query_engine.py:241  query_embedding = get_embedding(question)
\* (embeddings.py:37-52: [] for a blank question, else the provider's vector
\* or RuntimeError)
AqEmbed ==
    /\ aq_pc = "embed"
    /\ \E ok \in BOOLEAN :
        IF aq_question = "blank" \/ ok
        THEN aq_pc' = "query" /\ UNCHANGED aq_result
        ELSE aq_pc' = "done" /\ aq_result' = "exception"
    /\ UNCHANGED <<aq_top_k, aq_question, aq_queried, aq_matches, aq_context, aq_completions,
                   aq_llm, aq_excerpt>>

\* query_engine.py:244-251  results = col.query(..., n_results=top_k, ...)
AqQuery ==
    /\ aq_pc = "query"
    /\ \/ /\ \E ms \in MatchLists(aq_top_k) : aq_matches' = ms
          /\ aq_queried' = TRUE
          /\ aq_pc' = "gate"
          /\ UNCHANGED aq_result
       \/ /\ aq_pc' = "done"
          /\ aq_result' = "exception"
          /\ UNCHANGED <<aq_queried, aq_matches>>
    /\ UNCHANGED <<aq_top_k, aq_question, aq_context, aq_completions, aq_llm, aq_excerpt>>

\* query_engine.py:253-269  empty result, relevance gate, context
AqGate ==
    /\ aq_pc = "gate"
    /\ IF aq_matches = <<>>
       THEN aq_pc' = "done" /\ aq_result' = "no_information" /\ UNCHANGED aq_context
       ELSE IF RelevanceRefused(aq_matches)
       THEN aq_pc' = "done" /\ aq_result' = "refusal" /\ UNCHANGED aq_context
       ELSE aq_pc' = "complete" /\ aq_context' = ContextOf(aq_matches)
            /\ UNCHANGED aq_result
    /\ UNCHANGED <<aq_top_k, aq_question, aq_queried, aq_matches, aq_completions,
                   aq_llm, aq_excerpt>>

\* query_engine.py:296-313  completion, post-filter, fallback
AqComplete ==
    /\ aq_pc = "complete"
    /\ IF client_configured
       THEN /\ aq_completions' = aq_completions + 1
            /\ \E outcome \in {"answer", "says_not_relevant", "raise"} :
                /\ aq_llm' = outcome
                /\ aq_result' = CASE outcome = "answer" -> "answer"
                                  [] outcome = "says_not_relevant" -> "refusal"
                                  [] outcome = "raise" -> "fallback"
       ELSE /\ aq_result' = "fallback"
            /\ UNCHANGED <<aq_completions, aq_llm>>
    /\ aq_excerpt' = IF aq_result' = "fallback" THEN fallback_answer(aq_context)
                     ELSE <<>>
    /\ aq_pc' = "done"
    /\ UNCHANGED <<aq_top_k, aq_question, aq_queried, aq_matches, aq_context>>

AnswerNext ==
    AqCheckSufficient \/ AqLazyIndex \/ AqEmbed \/ AqQuery \/ AqGate \/ AqComplete

----------------------------------------------------------------------------
(* summarize (app/query_engine.py:69-174), generate_interview_questions    *)
(* (app/query_engine.py:315-404) and the interview_questions route         *)
(* (app/routes_rag.py:101-129)                                             *)
(*                                                                         *)
(* A returned error text is a record: the fixed message, and whether the   *)
(* text of the caught exception, str(e), is appended to it.                *)

StoredChunks == {"c1", "c2", "c3", "c4"}
\* the lists of chunks a collection can hold for a document
DocLists ==
    {ds \in UNION {[1..n -> StoredChunks] : n \in 0..4} :
        \A i \in 1..Len(ds), j \in 1..Len(ds) : i # j => ds[i] # ds[j]}

NoError == [msg |-> "", raw |-> FALSE]
Fixed(msg) == [msg |-> msg, raw |-> FALSE]
WithException(msg) == [msg |-> msg, raw |-> TRUE]

NoResult == [kind |-> "none", excerpt |-> <<>>, questions |-> <<>>, error |-> NoError]
Raised == [kind |-> "raised", excerpt |-> <<>>, questions |-> <<>>, error |-> NoError]
\* a string returned by summarize
Text(kind, excerpt) ==
    [kind |-> kind, excerpt |-> excerpt, questions |-> <<>>, error |-> NoError]
\* a dict returned by generate_interview_questions
Dict(questions, error) ==
    [kind |-> "dict", excerpt |-> <<>>, questions |-> questions, error |-> error]

\* the lines of a completion: a line with text, a line of whitespace, and a
\* line of nothing but list markers such as "1." or "-"
LineKinds == {"text", "blank", "marker"}
Completions == UNION {[1..n -> LineKinds] : n \in 0..2}

\* the list comprehension keeping every line
nonblank_lines_All(lines) == lines

\* query_engine.py:399  [... for q in questions if q.strip()]
nonblank_lines(lines) == SelectSeq(lines, LAMBDA q : q # "blank")

\* query_engine.py:398-399  content.strip().split("\n"), the non-blank lines,
\* each stripped of list markers ("" is what is left of a marker line)
parse_questions(lines) ==
    LET kept == nonblank_lines(lines)
    IN  [i \in 1..Len(kept) |-> IF kept[i] = "text" THEN "question" ELSE ""]

RagInit ==
    /\ rg_op \in {"summarize", "interview_questions"}
    /\ rg_docs \in DocLists
    /\ rg_flat = <<>>
    /\ rg_llm = "none"
    /\ rg_result = NoResult
    /\ rg_stored = FALSE
    /\ rg_pc = "start"

RagIdle ==
    /\ rg_op = "none" /\ rg_docs = <<>> /\ rg_flat = <<>> /\ rg_llm = "none"
    /\ rg_result = NoResult /\ rg_stored = FALSE /\ rg_pc = "idle"

\* query_engine.py:72-76  col = collection_for_user(user_id); col.get(...),
\* outside any try
SmFetch ==
    /\ rg_op = "summarize" /\ rg_pc = "start"
    /\ \/ /\ rg_result' = Raised /\ rg_pc' = "done"
          /\ UNCHANGED rg_flat
       \/ /\ rg_flat' = rg_docs
          /\ rg_pc' = IF rg_docs = <<>> THEN "lazy" ELSE "complete"
          /\ UNCHANGED rg_result
    /\ UNCHANGED <<rg_op, rg_docs, rg_llm, rg_stored>>

\* query_engine.py:77-139  on-the-fly indexing inside try/except: the row is
\* missing, uploads/<filename> does not exist, something raises (after
\* chunks of some pages were added, or none), or the pages are indexed and
\* the collection is read again
SmLazyIndex ==
    /\ rg_op = "summarize" /\ rg_pc = "lazy"
    /\ \E outcome \in {"doc_missing", "no_local_file", "raised", "indexed"} :
       \E after \in DocLists :
        /\ outcome \in {"doc_missing", "no_local_file"} => after = rg_docs
        /\ rg_docs' = after
        /\ rg_flat' = IF outcome = "indexed" THEN after ELSE rg_flat
        /\ IF rg_flat' = <<>>
           THEN rg_result' = Text("unavailable", <<>>) /\ rg_pc' = "done"
           ELSE rg_pc' = "complete" /\ UNCHANGED rg_result
    /\ UNCHANGED <<rg_op, rg_llm, rg_stored>>

\* query_engine.py:160-174  completion, else the labelled excerpt
SmComplete ==
    /\ rg_op = "summarize" /\ rg_pc = "complete"
    /\ IF client_configured
       THEN \E outcome \in {"summary", "raise"} :
              /\ rg_llm' = outcome
              /\ rg_result' = IF outcome = "summary" THEN Text("summary", <<>>)
                              ELSE Text("fallback", fallback_summary(rg_flat))
       ELSE /\ rg_result' = Text("fallback", fallback_summary(rg_flat))
            /\ UNCHANGED rg_llm
    /\ rg_pc' = "done"
    /\ UNCHANGED <<rg_op, rg_docs, rg_flat, rg_stored>>

\* query_engine.py:321  has_sufficient_text_data(user_id, doc_id), outside
\* any try: true needs two chunks with readable text (37-64)
IqCheckSufficient ==
    /\ rg_op = "interview_questions" /\ rg_pc = "start"
    /\ \E outcome \in {"sufficient", "insufficient", "raise"} :
        /\ outcome = "sufficient" => Len(rg_docs) >= 2
        /\ CASE outcome = "sufficient"   -> rg_pc' = "fetch" /\ UNCHANGED rg_result
             [] outcome = "insufficient" -> rg_pc' = "lazy" /\ UNCHANGED rg_result
             [] outcome = "raise"        -> rg_pc' = "done" /\ rg_result' = Raised
    /\ UNCHANGED <<rg_op, rg_docs, rg_flat, rg_llm, rg_stored>>

\* query_engine.py:322-372  on-the-fly indexing: the row is missing (327);
\* uploads/<filename> does not exist (334); extraction raises, or a page has
\* text and chunk_text(text, chunk_size=1000, overlap=200) raises TypeError
\* (355, 370-372); or no page has text
IqLazyIndex ==
    /\ rg_op = "interview_questions" /\ rg_pc = "lazy"
    /\ \E outcome \in {"doc_missing", "no_local_file", "extract_raised",
                       "page_with_text", "no_page_text"} :
        CASE outcome = "doc_missing" ->
                /\ rg_result' = Dict(<<>>, Fixed("Document not found or unauthorized"))
                /\ rg_pc' = "route"
          [] outcome \in {"extract_raised", "page_with_text"} ->
                /\ rg_result' = Dict(<<>>, WithException("Failed to process document: "))
                /\ rg_pc' = "route"
          [] outcome \in {"no_local_file", "no_page_text"} ->
                rg_pc' = "fetch" /\ UNCHANGED rg_result
    /\ UNCHANGED <<rg_op, rg_docs, rg_flat, rg_llm, rg_stored>>

\* query_engine.py:375-387  the collection is read (outside any try)
IqFetch ==
    /\ rg_op = "interview_questions" /\ rg_pc = "fetch"
    /\ \/ /\ rg_result' = Raised /\ rg_pc' = "done"
          /\ UNCHANGED rg_flat
       \/ /\ rg_docs = <<>>
          /\ rg_result' = Dict(<<>>, Fixed("No content found for this document."))
          /\ rg_pc' = "route"
          /\ UNCHANGED rg_flat
       \/ /\ rg_docs # <<>>
          /\ rg_flat' = rg_docs
          /\ rg_pc' = "complete"
          /\ UNCHANGED rg_result
    /\ UNCHANGED <<rg_op, rg_docs, rg_llm, rg_stored>>

\* query_engine.py:395-404  the completion call
IqComplete ==
    /\ rg_op = "interview_questions" /\ rg_pc = "complete"
    /\ IF client_configured
       THEN \/ \E lines \in Completions :
                 /\ rg_llm' = "content"
                 /\ rg_result' = [kind |-> "dict", excerpt |-> <<>>,
                                  questions |-> parse_questions(lines),
                                  error |-> NoError]
            \/ /\ rg_llm' = "raise"
               /\ rg_result' = Dict(<<>>, WithException(""))
       ELSE /\ rg_result' = Dict(<<>>, Fixed("No AI backend available"))
            /\ UNCHANGED rg_llm
    /\ rg_pc' = "route"
    /\ UNCHANGED <<rg_op, rg_docs, rg_flat, rg_stored>>

\* routes_rag.py:110-129  the route stores an InterviewSession when the
\* result has questions and no error; a failure to store is only logged
IqStore ==
    /\ rg_op = "interview_questions" /\ rg_pc = "route"
    /\ IF rg_result.questions # <<>> /\ rg_result.error = NoError
       THEN rg_stored' \in BOOLEAN
       ELSE rg_stored' = FALSE
    /\ rg_pc' = "done"
    /\ UNCHANGED <<rg_op, rg_docs, rg_flat, rg_llm, rg_result>>

RagNext ==
    \/ SmFetch \/ SmLazyIndex \/ SmComplete
    \/ IqCheckSufficient \/ IqLazyIndex \/ IqFetch \/ IqComplete \/ IqStore

\* one call of one of the three answering functions
EngineNext ==
    \/ AnswerNext /\ UNCHANGED ragVars
    \/ RagNext /\ UNCHANGED answerVars

----------------------------------------------------------------------------
(* The vector-store adapter, app/vector_db.py                              *)
(*                                                                         *)
(* The Pinecone index is a set of vectors; a vector lives in one namespace *)
(* under one id, and an upsert of an id already present in the namespace   *)
(* replaces the stored vector.  for_user and for_doc record the user_id    *)
(* and doc_id arguments of the add_chunks call that wrote the vector; the  *)
(* adapter never reads them.                                               *)


\* the registered users (models.py:6-11)
Users == {1, 2}
\* primary keys of the Document table
DocIds == 1..MaxDocs
\* the doc_id arguments of the adapter calls in SpecVector
VxDocIds == {1, 2}

\* vector_db.py:103  batch_size = 100 (scaled: one vector per upsert call, so
\* that the two chunks of a page of the service go in two calls)
UPSERT_BATCH == 1

\* str(n)
Str(n) == ToString(n)

\* every user gets the namespace "user_"
_get_namespace_Shared(user_id) == "user_"

\* vector_db.py:43-48
_get_namespace(user_id) == "user_" \o Str(user_id)

\* the id built from the document and the position alone
vector_id_NoUuid(doc_id, uuid, i) == <<doc_id, 0, i>>

\* vector_db.py:81  vector_id = f"{doc_id}_{uuid.uuid4().hex}_{i}"
vector_id(doc_id, uuid, i) == <<doc_id, uuid, i>>

\* the doc_id and user_id entries of the metadatas a caller passes ("": the
\* key is absent)
CallerMetadatas == [doc_id : {"", "1", "2"}, user_id : {"", "2"}]

\* the metadata left as the caller passed it
required_metadata_AsPassed(metadata, user_id, doc_id, i, chunk) == metadata

\* vector_db.py:90-93  the fields add_chunks sets, whatever the caller passed
required_metadata(metadata, user_id, doc_id, i, chunk) ==
    [metadata EXCEPT !.doc_id = Str(doc_id), !.user_id = Str(user_id),
                     !.chunk_id = i, !.text = chunk]

\* vector_db.py:79-99  the vectors add_chunks builds; uuid[i] is the
\* uuid4() value drawn for the i-th chunk, meta the doc_id and user_id the
\* caller put into its metadatas
BuildVectors(user_id, doc_id, chunks, meta, uuid) ==
    [i \in 1..Len(chunks) |->
        [ns |-> _get_namespace(user_id),
         id |-> vector_id(doc_id, uuid[i], i - 1),
         metadata |-> required_metadata([doc_id |-> meta.doc_id,
                                         user_id |-> meta.user_id,
                                         chunk_id |-> i - 1, text |-> <<>>],
                                        user_id, doc_id, i - 1, chunks[i]),
         for_user |-> user_id,
         for_doc |-> doc_id]]

\* _index.upsert(vectors=batch, namespace=namespace)
Upsert(idx, batch) ==
    {v \in idx : ~\E k \in 1..Len(batch) : batch[k].ns = v.ns /\ batch[k].id = v.id}
        \cup {batch[k] : k \in 1..Len(batch)}

\* vector_db.py:101-111  the first `batches` upsert calls succeeded
RECURSIVE UpsertBatches(_, _, _)
UpsertBatches(idx, vectors, batches) ==
    IF batches = 0 \/ vectors = <<>> THEN idx
    ELSE UpsertBatches(Upsert(idx, SubSeq(vectors, 1, Min(UPSERT_BATCH, Len(vectors)))),
                       SubSeq(vectors, Min(UPSERT_BATCH, Len(vectors)) + 1, Len(vectors)),
                       batches - 1)

NumBatches(n) == (n + UPSERT_BATCH - 1) \div UPSERT_BATCH

\* the metadata filter {"doc_id": {"$eq": str(doc_id)}, "user_id": {"$eq": str(user_id)}}
\* applied inside the namespace of user_id (vector_db.py:132-138, 171-180)
FilterMatches(idx, user_id, doc_id) ==
    {v \in idx : /\ v.ns = _get_namespace(user_id)
                 /\ v.metadata.doc_id = Str(doc_id)
                 /\ v.metadata.user_id = Str(user_id)}

\* vector_db.py:114-147  what delete_doc_chunks leaves in the index
\* ("deleted": the filter delete ran; "not_found": NotFoundException;
\*  "error": any other exception, nothing deleted)
delete_doc_chunks(idx, user_id, doc_id, outcome) ==
    IF outcome = "deleted" THEN idx \ FilterMatches(idx, user_id, doc_id) ELSE idx

\* vector_db.py:150-185  the possible `matches` of query_similar_chunks: top_k
\* of the vectors that pass the filter (the ranking is the store's)
query_similar_chunks(idx, user_id, doc_id, top_k) ==
    LET hits == FilterMatches(idx, user_id, doc_id)
    IN  {ms \in SUBSET hits : Cardinality(ms) = Min(top_k, Cardinality(hits))}

\* vector_db.py:188-229  get_all_doc_chunks (top_k = 10000)
get_all_doc_chunks(idx, user_id, doc_id) == FilterMatches(idx, user_id, doc_id)

VxChunkLists == {<<"c1">>, <<"c1", "c2">>, <<"c1", "c2", "c3">>}

\* no doc_id and no user_id in the metadatas of the call
NoMeta == [doc_id |-> "", user_id |-> ""]

NoCallYet == [op |-> "none", user |-> 0, doc |-> 0, meta |-> NoMeta, matches |-> {},
              outcome |-> "none"]

VectorInit ==
    /\ index = {}
    /\ uuids = 0
    /\ vx_last = NoCallYet

VectorIdle == VectorInit

\* vector_db.py:51-111  add_chunks(user_id, doc_id, chunks, embeddings, metadatas)
VxAddChunks(user_id, doc_id) ==
    \E chunks \in VxChunkLists, meta \in CallerMetadatas :
    \E batches \in 0..NumBatches(Len(chunks)) :
        /\ uuids + Len(chunks) <= MaxUuids
        /\ uuids' = uuids + Len(chunks)
        /\ index' = UpsertBatches(index,
                                  BuildVectors(user_id, doc_id, chunks, meta,
                                               [i \in 1..Len(chunks) |-> uuids + i]),
                                  batches)
        /\ vx_last' = [op |-> "add", user |-> user_id, doc |-> doc_id, meta |-> meta,
                       matches |-> {},
                       outcome |-> IF batches = NumBatches(Len(chunks))
                                   THEN "ok" ELSE "raise"]

\* vector_db.py:114-147  delete_doc_chunks(user_id, doc_id)
VxDelete(user_id, doc_id) ==
    \E outcome \in {"deleted", "not_found", "error"} :
        /\ outcome = "not_found" => ~\E v \in index : v.ns = _get_namespace(user_id)
        /\ index' = delete_doc_chunks(index, user_id, doc_id, outcome)
        /\ vx_last' = [op |-> "delete", user |-> user_id, doc |-> doc_id, meta |-> NoMeta, matches |-> {},
                       outcome |-> outcome]
        /\ UNCHANGED uuids

\* vector_db.py:150-185  query_similar_chunks(user_id, doc_id, embedding, top_k)
VxQuery(user_id, doc_id) ==
    /\ \/ \E top_k \in 1..MaxTopK :
          \E ms \in query_similar_chunks(index, user_id, doc_id, top_k) :
            vx_last' = [op |-> "query", user |-> user_id, doc |-> doc_id, meta |-> NoMeta, matches |-> ms,
                        outcome |-> "ok"]
       \/ vx_last' = [op |-> "query", user |-> user_id, doc |-> doc_id, meta |-> NoMeta, matches |-> {},
                      outcome |-> "raise"]
    /\ UNCHANGED <<index, uuids>>

\* vector_db.py:188-229  get_all_doc_chunks(user_id, doc_id)
VxGetAll(user_id, doc_id) ==
    /\ \/ vx_last' = [op |-> "get_all", user |-> user_id, doc |-> doc_id, meta |-> NoMeta,
                      matches |-> get_all_doc_chunks(index, user_id, doc_id),
                      outcome |-> "ok"]
       \/ vx_last' = [op |-> "get_all", user |-> user_id, doc |-> doc_id, meta |-> NoMeta, matches |-> {},
                      outcome |-> "raise"]
    /\ UNCHANGED <<index, uuids>>

VectorNext ==
    \E user_id \in Users, doc_id \in VxDocIds :
        \/ VxAddChunks(user_id, doc_id)
        \/ VxDelete(user_id, doc_id)
        \/ VxQuery(user_id, doc_id)
        \/ VxGetAll(user_id, doc_id)

----------------------------------------------------------------------------
(* The service: upload_pdf, process_pdf_background, delete_document,       *)
(* get_document (app/routes_docs.py), ask, do_summarize and                *)
(* interview_questions (app/routes_rag.py) over the Document table, the    *)
(* blob container and the vector index.                                    *)
(*                                                                         *)
(* Upload requests carry a valid, non-empty PDF.  Handlers and background  *)
(* tasks of different requests run concurrently (worker threads, and       *)
(* worker processes that share the database), so upload_pdf is two steps:  *)
(* the duplicate lookup, and the blob write with the INSERT.               *)

\* config.py:31  CHUNK_SIZE (environment-configurable; a small setting)
CHUNK_SIZE == 4
\* config.py:32  CHUNK_OVERLAP
CHUNK_OVERLAP == 1

\* the PDF files users upload, and the pages of each
Contents == {"B1", "B2"}
PdfOf(c) == IF c = "B1" THEN <<"good", "good">> ELSE <<"poor">>

\* routes_docs.py:253  hashlib.sha256(file_bytes).hexdigest()
Hash(c) == "sha256:" \o c

\* the characters of a page text: the text layer of page 1 is three
\* characters long, every other text one character
TextChars(t) ==
    IF t = NoText THEN <<>>
    ELSE IF t = LayerText(1) THEN <<"a", "a", "a">> ELSE <<"a">>

\* routes_docs.py:160-161  header + "\n\n" + text, the header
\* "[PAGE n | source=s | conf=c]" standing as one non-space character
FullText(p) == <<"a">> \o <<" ", " ">> \o Strip(TextChars(p.text))

\* chunker.py:7-11  the windows of the while loop from `start` on
RECURSIVE chunk_windows(_, _, _, _)
chunk_windows(text, S, O, start) ==
    IF start < Len(text)
    THEN LET end == Min(start + S, Len(text))
             w == [text |-> Slice(text, start, end), lo |-> start]
         IN  IF end = Len(text) THEN <<w>>
             ELSE <<w>> \o chunk_windows(text, S, O, NextStart(start, S, O))
    ELSE <<>>

\* chunker.py:3-12  chunk_text(text) with the configured size and overlap
chunk_text(text) ==
    LET cs == FilterChunks(chunk_windows(Strip(text), CHUNK_SIZE, CHUNK_OVERLAP, 0))
    IN  [i \in 1..Len(cs) |-> cs[i].text]

\* routes_docs.py:152-164  the chunks of one extracted page (none when the
\* page has no text)
PageChunks(p) ==
    IF Strip(TextChars(p.text)) = <<>> THEN <<>> ELSE chunk_text(FullText(p))

\* routes_docs.py:138-146  extraction with the retry gate
extract_with_gate(pdf, env1, env2) ==
    LET first == extract_pages_text(pdf, FALSE, env1).results
    IN  IF meaningful_pages(first) = {}
        THEN extract_pages_text(pdf, TRUE, env2).results
        ELSE first

\* every page list the gated extraction of a file can return
IngestPages ==
    [c \in Contents |-> {extract_with_gate(PdfOf(c), e1, e2) : e1 \in Envs, e2 \in Envs}]

\* the invocations in which the reader opens the file, every batch renders
\* and no OCR request raises
NormalEnvs ==
    {e \in Envs : /\ e.reader
                  /\ \A b \in BatchNumbers : e.render[b] = "ok"
                  /\ \A i \in 1..MAX_PDF_PAGES : e.ocr[i] # "raise"}

\* the page lists the gated extraction returns when nothing fails
NormalPages ==
    [c \in Contents |->
        {extract_with_gate(PdfOf(c), e1, e2) : e1 \in NormalEnvs, e2 \in NormalEnvs}]

\* the number of chunks the pages of an extraction yield in total
RECURSIVE CountChunks(_)
CountChunks(pages) ==
    IF pages = <<>> THEN 0
    ELSE Len(PageChunks(Head(pages))) + CountChunks(Tail(pages))

\* routes_docs.py:60  MAX_FILE_SIZE = 100 * 1024 * 1024 (scaled: two units)
MAX_FILE_SIZE == 2

\* an uploaded file: whether file.filename is set and ends in ".pdf" when
\* lowercased, file.content_type ("" when the client sent none),
\* len(file_bytes), whether PdfReader reads the bytes, and the bytes
ContentTypes == {"", "application/pdf", "application/octet-stream", "text/plain"}
Files ==
    [pdf_name : BOOLEAN, content_type : ContentTypes, size : 0..(MAX_FILE_SIZE + 1),
     parses : BOOLEAN, content : Contents]

\* the files of the refused requests in SpecValidate (what the bytes are
\* plays no part in a refusal)
RefusedFiles == {f \in Files : f.content = "B1"}

\* the size check letting every size pass
too_large_Never(size_bytes) == FALSE

\* routes_docs.py:61-62  size_bytes > MAX_FILE_SIZE
too_large(size_bytes) == size_bytes > MAX_FILE_SIZE

\* routes_docs.py:34-79  validate_pdf_file(file, file_bytes): the detail of
\* the HTTPException it raises, "ok" when it returns
validate_pdf_file(file) ==
    IF ~file.pdf_name
    THEN "Only PDF files are supported (missing .pdf extension)"
    ELSE IF file.content_type # ""
            /\ file.content_type \notin {"application/pdf", "application/octet-stream"}
    THEN "Invalid file type. Only PDF files are allowed."
    ELSE IF file.size > 0 /\ too_large(file.size)
    THEN "File too large. Maximum size allowed is 100MB"
    ELSE IF file.size > 0 /\ ~file.parses
    THEN "Invalid file content. The file must be a valid PDF document."
    ELSE "ok"

\* routes_docs.py:240-250  upload_pdf up to the hash: the detail of the 400
\* it raises, "ok" when the file goes on to the duplicate lookup
upload_refusal(file) ==
    IF file.size = 0 THEN "Uploaded file is empty" ELSE validate_pdf_file(file)

\* the files that pass the validation with the bytes c
ValidFile(c) ==
    [pdf_name |-> TRUE, content_type |-> "application/pdf", size |-> 1,
     parses |-> TRUE, content |-> c]

NoFile == [pdf_name |-> FALSE, content_type |-> "", size |-> 0, parses |-> FALSE,
           content |-> ""]

NoResp == [op |-> "none", user |-> 0, doc |-> 0, file |-> NoFile, status |-> 200,
           detail |-> ""]

\* the handlers that take a doc_id
DocHandlers == {"get_document", "delete_document", "ask", "do_summarize",
                "interview_questions"}

\* the ownership test passing every document that exists
not_found_MissingOnly(tbl, user_id, doc_id) == tbl[doc_id].status = "none"

\* routes_docs.py:312, 324; routes_rag.py:21, 92, 104
\* `not doc or doc.owner_id != user.id`
not_found(tbl, user_id, doc_id) ==
    tbl[doc_id].status = "none" \/ tbl[doc_id].owner_id # user_id

NoDoc == [owner_id |-> 0, filename |-> 0, file_hash |-> "", status |-> "none",
          chunk_count |-> 0]

DocRows == {d \in DocIds : docs[d] # NoDoc}

MaxOf(S) == IF S = {} THEN 0 ELSE CHOOSE m \in S : \A x \in S : x <= m

\* routes_docs.py:283-285  the primary key the INSERT assigns: one more than
\* the largest key in the table (SQLite rowid, the default DATABASE_URL,
\* config.py:28) or the next value of a sequence (other engines)
NewDocIds == {MaxOf(DocRows) + 1, next_doc_id}

\* routes_docs.py:256-258  select(Document).where(owner_id == user.id,
\* file_hash == file_hash).first()  with the owner left out of the WHERE
existing_doc_AnyOwner(user_id, file_hash) ==
    \E d \in DocRows : docs[d].file_hash = file_hash

\* routes_docs.py:256-258  the duplicate lookup
existing_doc(user_id, file_hash) ==
    \E d \in DocRows : docs[d].owner_id = user_id /\ docs[d].file_hash = file_hash

\* routes_docs.py:82-101  _safe_update_doc_status: nothing is written when
\* the row is gone or the session raises (db_ok = FALSE)
_safe_update_doc_status(tbl, doc_id, status, chunk_count, db_ok) ==
    IF ~db_ok \/ tbl[doc_id] = NoDoc THEN tbl
    ELSE [tbl EXCEPT ![doc_id] = [@ EXCEPT !.status = status,
                                           !.chunk_count = chunk_count]]

\* routes_docs.py:177  total_chunks += len(chunks)
total_after_page(total_chunks, n) == total_chunks + n

\* delete_document giving up when the chunk deletion failed
delete_continues_StopOnError(vec) == vec # "error"

\* routes_docs.py:327-334  delete_document goes on to the blob and the rows
\* whatever delete_doc_chunks did
delete_continues(vec) == TRUE

\* the uuid4() values of one add_chunks call, made distinct by the call
\* that drew them
UuidsOf(kind, r, page, n) == [i \in 1..n |-> <<kind, r, page, i>>]

\* routes_docs.py:164-176  the vectors add_chunks builds for one page
PageVectors(kind, r, user_id, doc_id, p) ==
    BuildVectors(user_id, doc_id, PageChunks(p),
                 [doc_id |-> Str(doc_id), user_id |-> ""],
                 UuidsOf(kind, r, p.page, Len(PageChunks(p))))

\* query_engine.py:104-128  add_chunks for each page of `pages`
RECURSIVE IndexPages(_, _, _, _, _)
IndexPages(idx, r, user_id, doc_id, pages) ==
    IF pages = <<>> THEN idx
    ELSE LET v == PageVectors("lazy", r, user_id, doc_id, Head(pages))
         IN  IndexPages(UpsertBatches(idx, v, NumBatches(Len(v))),
                        r, user_id, doc_id, Tail(pages))

\* query_engine.py:72-73  col.get(where={"doc_id": str(doc_id)}) on the
\* collection of the user
collection_get(idx, user_id, doc_id) ==
    {v \in idx : v.ns = _get_namespace(user_id) /\ v.metadata.doc_id = Str(doc_id)}

NoPages == <<>>

NoDelete == [user |-> 0, doc |-> 0, vec |-> "none", blob |-> "none", filename |-> 0,
             conv |-> FALSE, sess |-> FALSE]

ServiceInit ==
    /\ docs = [d \in DocIds |-> NoDoc]
    /\ next_doc_id = 1
    /\ blobs = {}
    /\ uploads = <<>>
    /\ convs = {}
    /\ isess = {}
    /\ del_out = NoDelete
    /\ events = 0
    /\ resp = NoResp
    /\ purged = {}

ServiceIdle == ServiceInit

\* a step that takes up a request, a step in which a collaborator fails,
\* and a step that does neither
Counted == events < MaxEvents /\ events' = events + 1
Faulty == Counted
Sound == events' = events

NewRequest(u, c, pc) ==
    [user |-> u, content |-> c, pc |-> pc, doc |-> 0, pages |-> NoPages,
     idx |-> 1, total |-> 0]

\* the locals of a finished task are gone
EndTask(t) == [t EXCEPT !.pc = "done", !.pages = NoPages, !.idx = 1, !.total = 0]

\* routes_docs.py:229-261  upload_pdf up to the duplicate lookup: the request
\* is rejected (400) when the owner already has a row with this hash
\* (limit: the number of upload requests the specification considers)
UploadCheck(u, c, limit) ==
    /\ Len(uploads) < limit
    /\ Counted
    /\ uploads' = Append(uploads,
                         NewRequest(u, c, IF existing_doc(u, Hash(c))
                                          THEN "duplicate" ELSE "store"))
    /\ resp' = IF existing_doc(u, Hash(c))
               THEN [op |-> "upload_pdf", user |-> u, doc |-> 0, file |-> ValidFile(c),
                     status |-> 400, detail |-> "This PDF has already been uploaded."]
               ELSE NoResp
    /\ del_out' = NoDelete /\ UNCHANGED purged
    /\ UNCHANGED <<docs, next_doc_id, blobs, convs, isess, index>>

\* routes_docs.py:263-290  upload_pdf from the blob write on: 500 when the
\* blob write raises, else the row is inserted and the task queued
UploadStore(r) ==
    /\ uploads[r].pc = "store"
    /\ \/ /\ Faulty
          /\ uploads' = [uploads EXCEPT ![r].pc = "storage_error"]
          /\ resp' = [op |-> "upload_pdf", user |-> uploads[r].user, doc |-> 0,
                      file |-> ValidFile(uploads[r].content), status |-> 500,
                      detail |-> "Failed to upload file to storage"]
          /\ UNCHANGED <<docs, next_doc_id, blobs, purged>>
       \/ \E id \in NewDocIds \cap DocIds :
          /\ Sound
          /\ blobs' = blobs \cup {r}
          /\ docs' = [docs EXCEPT ![id] =
                         [owner_id |-> uploads[r].user, filename |-> r,
                          file_hash |-> Hash(uploads[r].content),
                          status |-> "processing", chunk_count |-> 0]]
          /\ next_doc_id' = IF id + 1 > next_doc_id THEN id + 1 ELSE next_doc_id
          /\ uploads' = [uploads EXCEPT ![r].pc = "extract", ![r].doc = id]
          /\ resp' = NoResp
          /\ purged' = purged \ {<<uploads[r].user, id>>}
    /\ del_out' = NoDelete
    /\ UNCHANGED <<convs, isess, index>>

\* a _safe_update_doc_status call whose session may raise
UpdateStatus(doc_id, status, chunk_count) ==
    \/ Sound /\ docs' = _safe_update_doc_status(docs, doc_id, status, chunk_count, TRUE)
    \/ Faulty /\ docs' = _safe_update_doc_status(docs, doc_id, status, chunk_count, FALSE)

\* routes_docs.py:212-215  the except branch: status failed with the running
\* total, then the task ends
BgFail(r) ==
    /\ docs' = _safe_update_doc_status(docs, uploads[r].doc, "failed",
                                       uploads[r].total, TRUE)
    /\ uploads' = [uploads EXCEPT ![r] = EndTask(@)]

\* routes_docs.py:123-148  download_from_blob, then extract_pages_text with
\* the retry gate (pdf_processor.py:272 raises when the OCR service is not
\* configured)
BgExtract(r) ==
    /\ uploads[r].pc = "extract"
    /\ \/ /\ r \notin blobs \/ ~ex_cfg
          /\ Sound
          /\ BgFail(r)
       \/ /\ r \in blobs
          /\ Faulty
          /\ BgFail(r)
       \/ /\ r \in blobs /\ ex_cfg
          /\ \E pages \in IngestPages[uploads[r].content] :
               /\ IF pages \in NormalPages[uploads[r].content] THEN Sound ELSE Faulty
               /\ uploads' = [uploads EXCEPT ![r].pages = pages,
                                             ![r].pc = IF pages = <<>> THEN "final"
                                                       ELSE "pages"]
          /\ UNCHANGED docs
    /\ del_out' = NoDelete /\ resp' = NoResp /\ UNCHANGED purged
    /\ UNCHANGED <<next_doc_id, blobs, convs, isess, index>>

\* routes_docs.py:150-184  one iteration of `for p in pages`: skip a page
\* without text; else chunk, embed, add_chunks, add to the total and write
\* the progress update.  get_embedding or an upsert batch may raise.
BgPage(r) ==
    LET t == uploads[r]
        p == t.pages[t.idx]
        n == Len(PageChunks(p))
        v == PageVectors("bg", r, t.user, t.doc, p)
        nextpc == IF t.idx = Len(t.pages) THEN "final" ELSE "pages"
    IN  /\ t.pc = "pages"
        /\ IF n = 0
           THEN /\ uploads' = [uploads EXCEPT ![r].idx = t.idx + 1, ![r].pc = nextpc]
                /\ Sound
                /\ UNCHANGED <<docs, index>>
           ELSE \/ \E batches \in 0..(NumBatches(n) - 1) :
                   /\ Faulty
                   /\ index' = UpsertBatches(index, v, batches)
                   /\ BgFail(r)
                \/ /\ index' = UpsertBatches(index, v, NumBatches(n))
                   /\ uploads' = [uploads EXCEPT
                                     ![r].total = total_after_page(t.total, n),
                                     ![r].idx = t.idx + 1, ![r].pc = nextpc]
                   /\ UpdateStatus(t.doc, "processing", total_after_page(t.total, n))
        /\ del_out' = NoDelete /\ resp' = NoResp /\ UNCHANGED purged
        /\ UNCHANGED <<next_doc_id, blobs, convs, isess>>

\* routes_docs.py:208-210  the final update
BgFinal(r) ==
    /\ uploads[r].pc = "final"
    /\ UpdateStatus(uploads[r].doc, "processed", uploads[r].total)
    /\ uploads' = [uploads EXCEPT ![r] = EndTask(@)]
    /\ del_out' = NoDelete /\ resp' = NoResp /\ UNCHANGED purged
    /\ UNCHANGED <<next_doc_id, blobs, convs, isess, index>>

\* routes_docs.py:317-359  delete_document on a document the user owns
\* (vec: what delete_doc_chunks did; blob: delete_from_blob returned True,
\* returned False, or raised)
DeleteDocument(u, d) ==
    /\ ~not_found(docs, u, d)
    /\ \E vec \in {"deleted", "not_found", "error"},
          blob \in {"deleted", "not_found", "raise"} :
        /\ vec = "not_found" => ~\E v \in index : v.ns = _get_namespace(u)
        /\ blob = "deleted" => docs[d].filename \in blobs
        /\ blob = "not_found" => docs[d].filename \notin blobs
        /\ events' = events + (IF vec = "error" THEN 1 ELSE 0)
                            + (IF blob = "raise" THEN 1 ELSE 0)
        /\ events' <= MaxEvents
        /\ index' = delete_doc_chunks(index, u, d, vec)
        /\ del_out' = [user |-> u, doc |-> d, vec |-> vec, blob |-> blob,
                       filename |-> docs[d].filename,
                       conv |-> d \in convs, sess |-> d \in isess]
        /\ IF delete_continues(vec)
           THEN /\ blobs' = IF blob = "deleted" THEN blobs \ {docs[d].filename}
                            ELSE blobs
                /\ convs' = convs \ {d}
                /\ isess' = isess \ {d}
                /\ docs' = [docs EXCEPT ![d] = NoDoc]
                /\ purged' = IF vec = "error" THEN purged \ {<<u, d>>}
                             ELSE purged \cup {<<u, d>>}
           ELSE UNCHANGED <<blobs, convs, isess, docs, purged>>
    /\ resp' = NoResp
    /\ UNCHANGED <<next_doc_id, uploads>>

\* routes_docs.py:305-314  get_document: the status read
GetDocument(u, d) ==
    /\ ~not_found(docs, u, d)
    /\ del_out' = NoDelete /\ resp' = NoResp /\ UNCHANGED purged
    /\ UNCHANGED <<docs, next_doc_id, blobs, uploads, convs, isess, events, index>>

\* routes_rag.py:89-95, query_engine.py:69-135  do_summarize: when the
\* collection has nothing for the document and uploads/<filename> exists,
\* the pages are extracted and indexed; an exception ends the indexing
\* after `done` pages and `batches` upsert batches of the next one
Summarize(u, d) ==
    /\ ~not_found(docs, u, d)
    /\ collection_get(index, u, d) = {}
    /\ ex_cfg
    /\ Counted
    /\ \E pages \in IngestPages[uploads[docs[d].filename].content] :
       \E done \in 0..Len(pages) :
          LET r == docs[d].filename
              idx1 == IndexPages(index, r, u, d, SubSeq(pages, 1, done))
          IN  \/ /\ done = Len(pages)
                 /\ pages \in NormalPages[uploads[r].content]
                 /\ index' = idx1
              \/ /\ done < Len(pages)
                 /\ pages \in NormalPages[uploads[r].content]
                 /\ PageChunks(pages[done + 1]) # <<>>
                 /\ \E batches \in 0..(NumBatches(Len(PageChunks(pages[done + 1]))) - 1) :
                      index' = UpsertBatches(idx1,
                                   PageVectors("lazy", r, u, d, pages[done + 1]), batches)
    /\ del_out' = NoDelete /\ resp' = NoResp /\ UNCHANGED purged
    /\ UNCHANGED <<docs, next_doc_id, blobs, uploads, convs, isess>>

\* routes_rag.py:18-87  ask: get_or_create_conversation, answer_query (its
\* on-the-fly indexing stops at chunk_text(text, chunk_size=..., overlap=...),
\* query_engine.py:214, before anything is written), add_message
Ask(u, d) ==
    /\ ~not_found(docs, u, d)
    /\ convs' = convs \cup {d}
    /\ IF d \in convs THEN Sound ELSE Counted
    /\ del_out' = NoDelete /\ resp' = NoResp /\ UNCHANGED purged
    /\ UNCHANGED <<docs, next_doc_id, blobs, uploads, isess, index>>

\* routes_rag.py:101-130  interview_questions: the session is stored when
\* questions came back (query_engine.py:354 stops the on-the-fly indexing
\* before anything is written)
InterviewQuestions(u, d) ==
    /\ ~not_found(docs, u, d)
    /\ collection_get(index, u, d) # {}
    /\ isess' = isess \cup {d}
    /\ IF d \in isess THEN Sound ELSE Counted
    /\ del_out' = NoDelete /\ resp' = NoResp /\ UNCHANGED purged
    /\ UNCHANGED <<docs, next_doc_id, blobs, uploads, convs, index>>

\* routes_docs.py:311-313, 323-325; routes_rag.py:20-22, 91-93, 103-105
\* a handler answers 404 for a document that is missing or not the user's
DocumentNotFound(op, u, d) ==
    /\ not_found(docs, u, d)
    /\ resp' = [op |-> op, user |-> u, doc |-> d, file |-> NoFile, status |-> 404,
                detail |-> "Document not found"]
    /\ del_out' = NoDelete
    /\ UNCHANGED <<docs, next_doc_id, blobs, uploads, convs, isess, events, index, purged>>

\* routes_docs.py:236-250  upload_pdf refusing the file before the hash is
\* computed
UploadInvalid(u, file) ==
    /\ upload_refusal(file) # "ok"
    /\ resp' = [op |-> "upload_pdf", user |-> u, doc |-> 0, file |-> file,
                status |-> 400, detail |-> upload_refusal(file)]
    /\ del_out' = NoDelete
    /\ UNCHANGED <<docs, next_doc_id, blobs, uploads, convs, isess, events, index, purged>>

\* the upload and delete handlers and the status read alone: the queued
\* tasks, which write only status and chunk_count, do not get to run
UploadsNext ==
    \/ \E u \in Users, c \in Contents : UploadCheck(u, c, MaxDedupUploads)
    \/ \E r \in 1..Len(uploads) : UploadStore(r)
    \/ \E u \in Users, d \in DocIds : DeleteDocument(u, d)
    \/ \E u \in Users, d \in DocIds : GetDocument(u, d)

ServiceNext ==
    \/ \E u \in Users, c \in Contents : UploadCheck(u, c, MaxUploads)
    \/ \E r \in 1..Len(uploads) : UploadStore(r)
    \/ \E r \in 1..Len(uploads) : BgExtract(r)
    \/ \E r \in 1..Len(uploads) : BgPage(r)
    \/ \E r \in 1..Len(uploads) : BgFinal(r)
    \/ \E u \in Users, d \in DocIds : DeleteDocument(u, d)
    \/ \E u \in Users, d \in DocIds : GetDocument(u, d)
    \/ \E u \in Users, d \in DocIds : Summarize(u, d)
    \/ \E u \in Users, d \in DocIds : Ask(u, d)
    \/ \E u \in Users, d \in DocIds : InterviewQuestions(u, d)

----------------------------------------------------------------------------
(* is_text_meaningful, app/pdf_processor.py:219-262                        *)
(*                                                                         *)
(* The characters of a page text: "t" and "o" are letters, "1" is a digit, *)
(* "." ends a sentence and " " is whitespace.  Of the stop words of line   *)
(* 242 these characters spell "to".  The thresholds on the length and on   *)
(* the number of words are scaled down with the texts.                     *)

PageChars == {"t", "o", "1", ".", " "}
PageTexts(n) == UNION {[1..k -> PageChars] : k \in 0..n}

\* pdf_processor.py:229  len(text) < 50 (scaled)
MIN_TEXT_LENGTH == 5
\* pdf_processor.py:234  len(words) < 5 (scaled)
MIN_WORDS == 2
\* pdf_processor.py:249  pattern_matches < 2
MIN_PATTERNS == 2
\* pdf_processor.py:258  alpha_ratio < 0.4, in percent
MIN_ALPHA_PERCENT == 40

\* str.isalpha(), and [a-zA-Z] of line 241
IsAlpha(c) == c \in {"t", "o"}
\* \d of line 244
IsDigit(c) == c = "1"
\* \w, the characters on the inside of a \b boundary
IsWordChar(c) == IsAlpha(c) \/ IsDigit(c)

\* pdf_processor.py:242  the stop words (those the characters can spell)
StopWords == {<<"t", "o">>}

\* str.split(): the maximal runs of non-whitespace characters
RECURSIVE Split(_)
Split(t) ==
    LET s == SubSeq(t, LeadSpaces(t) + 1, Len(t))
        n == IF \E i \in 1..Len(s) : IsSpace(s[i])
             THEN (CHOOSE i \in 1..Len(s) :
                       IsSpace(s[i]) /\ \A j \in 1..(i - 1) : ~IsSpace(s[j])) - 1
             ELSE Len(s)
    IN  IF s = <<>> THEN <<>>
        ELSE <<SubSeq(s, 1, n)>> \o Split(SubSeq(s, n + 1, Len(s)))

\* re.search(r'[a-zA-Z]{3,}', text)
HasLetterRun(t) ==
    \E i \in 1..(Len(t) - 2) : IsAlpha(t[i]) /\ IsAlpha(t[i + 1]) /\ IsAlpha(t[i + 2])

\* re.search(r'\b(the|and|...|to|...)\b', text, re.IGNORECASE)
HasStopWord(t) ==
    \E w \in StopWords : \E i \in 1..(Len(t) - Len(w) + 1) :
        /\ SubSeq(t, i, i + Len(w) - 1) = w
        /\ i = 1 \/ ~IsWordChar(t[i - 1])
        /\ i + Len(w) - 1 = Len(t) \/ ~IsWordChar(t[i + Len(w)])

\* re.search(r'[.!?]', text)
HasSentenceEnd(t) == \E i \in 1..Len(t) : t[i] = "."

\* re.search(r'\d+', text)
HasDigit(t) == \E i \in 1..Len(t) : IsDigit(t[i])

\* pdf_processor.py:247  pattern_matches
pattern_matches(t) ==
    (IF HasLetterRun(t) THEN 1 ELSE 0) + (IF HasStopWord(t) THEN 1 ELSE 0)
        + (IF HasSentenceEnd(t) THEN 1 ELSE 0) + (IF HasDigit(t) THEN 1 ELSE 0)

\* pdf_processor.py:253  alpha_chars
alpha_chars(t) == Cardinality({i \in 1..Len(t) : IsAlpha(t[i])})

\* the ratio test asking for half of the characters
alpha_ratio_low_Half(alpha, total) == 2 * alpha < total

\* pdf_processor.py:255-258  alpha_ratio < 0.4 (total_chars > 0 here)
alpha_ratio_low(alpha, total) == 100 * alpha < MIN_ALPHA_PERCENT * total

\* pdf_processor.py:219-262
is_text_meaningful(t) ==
    IF Strip(t) = <<>> THEN FALSE
    ELSE LET text == Strip(t) IN
         IF Len(text) < MIN_TEXT_LENGTH THEN FALSE
         ELSE IF Len(Split(text)) < MIN_WORDS THEN FALSE
         ELSE IF pattern_matches(text) < MIN_PATTERNS THEN FALSE
         ELSE IF alpha_ratio_low(alpha_chars(text), Len(text)) THEN FALSE
         ELSE TRUE

MeaningInit ==
    /\ mt_text \in PageTexts(MaxMeaningLen)
    /\ mt_ret = FALSE
    /\ mt_pc = "call"

MeaningIdle == mt_text = <<>> /\ mt_ret = FALSE /\ mt_pc = "idle"

\* pdf_processor.py:299  is_text_meaningful(txt)
MeaningCall ==
    /\ mt_pc = "call"
    /\ mt_ret' = is_text_meaningful(mt_text)
    /\ mt_pc' = "done"
    /\ UNCHANGED mt_text

MeaningNext == MeaningCall

\* the service with the requests on documents that are missing or not the
\* user's
AccessNext ==
    \/ \E u \in Users, c \in Contents : UploadCheck(u, c, MaxAccessUploads)
    \/ \E r \in 1..Len(uploads) : UploadStore(r)
    \/ \E r \in 1..Len(uploads) : BgExtract(r)
    \/ \E r \in 1..Len(uploads) : BgPage(r)
    \/ \E r \in 1..Len(uploads) : BgFinal(r)
    \/ \E u \in Users, d \in DocIds : DeleteDocument(u, d)
    \/ \E u \in Users, d \in DocIds : GetDocument(u, d)
    \/ \E u \in Users, d \in DocIds : Summarize(u, d)
    \/ \E u \in Users, d \in DocIds : Ask(u, d)
    \/ \E u \in Users, d \in DocIds : InterviewQuestions(u, d)
    \/ \E op \in DocHandlers, u \in Users, d \in DocIds : DocumentNotFound(op, u, d)

\* upload_pdf alone, with the files the validation refuses
ValidateNext ==
    \/ \E u \in Users, c \in Contents : UploadCheck(u, c, MaxValidUploads)
    \/ \E r \in 1..Len(uploads) : UploadStore(r)
    \/ \E u \in Users, file \in RefusedFiles : UploadInvalid(u, file)

----------------------------------------------------------------------------
(* The start of the process: app/config.py:10-21, 42-44, app/main.py:12-46, *)
(* and the use of the credentials at run time                              *)

Credentials == {"OPENAI_API_KEY", "PINECONE_API_KEY", "PINECONE_INDEX_NAME",
                "AZURE_DI_ENDPOINT", "AZURE_DI_KEY"}
Environments == [Credentials -> {"unset", "empty", "set"}]

\* the operations of one serving process the specification considers
MaxOperations == 2

\* config.py:11, 16, 17, 43, 44  os.getenv(name, default): the default is ""
\* except for PINECONE_INDEX_NAME, whose default is the name of an index
getenv(e, name) ==
    IF e[name] = "unset"
    THEN (IF name = "PINECONE_INDEX_NAME" THEN "set" ELSE "empty")
    ELSE e[name]

\* python truth of the configuration value
Truthy(e, name) == getenv(e, name) = "set"

\* config.py:12-21, main.py:18-29  the names whose value is tested
required == {"OPENAI_API_KEY", "PINECONE_API_KEY", "PINECONE_INDEX_NAME"}

\* config.py:10-21  the module raises ValueError when a tested value is empty
\* (embeddings.py:12-20 raises on the same test of OPENAI_API_KEY)
config_raises(e) == \E name \in required : ~Truthy(e, name)

\* pdf_processor.py:126, 272  not AZURE_DI_ENDPOINT or not AZURE_DI_KEY
di_configured(e) == Truthy(e, "AZURE_DI_ENDPOINT") /\ Truthy(e, "AZURE_DI_KEY")

BootInit ==
    /\ environ \in Environments
    /\ boot_pc = "import"
    /\ rt_log = <<>>

BootIdle ==
    /\ environ = [name \in Credentials |-> "set"]
    /\ boot_pc = "idle"
    /\ rt_log = <<>>

\* main.py:5-9  importing the application imports app/config.py
ImportApp ==
    /\ boot_pc = "import"
    /\ boot_pc' = IF config_raises(environ) THEN "exited" ELSE "lifespan"
    /\ UNCHANGED <<environ, rt_log>>

\* main.py:41-46  lifespan: check_dependencies(), init_db(), then the
\* application serves
Lifespan ==
    /\ boot_pc = "lifespan"
    /\ boot_pc' = IF config_raises(environ) THEN "exited" ELSE "serving"
    /\ UNCHANGED <<environ, rt_log>>

\* routes_docs.py:134-146, 212-215  a background ingestion calls
\* extract_pages_text, which raises RuntimeError when the OCR service is not
\* configured (pdf_processor.py:272-273); the task ends with status failed
ServeIngestion ==
    /\ boot_pc = "serving"
    /\ Len(rt_log) < MaxOperations
    /\ rt_log' = Append(rt_log, <<"ingestion",
                                  IF di_configured(environ) THEN "ran"
                                  ELSE "failed: not configured">>)
    /\ UNCHANGED <<environ, boot_pc>>

\* query_engine.py:241  a request embeds its question with the client the
\* import created (embeddings.py:12-20, 41-42)
ServeAsk ==
    /\ boot_pc = "serving"
    /\ Len(rt_log) < MaxOperations
    /\ rt_log' = Append(rt_log, <<"ask",
                                  IF Truthy(environ, "OPENAI_API_KEY") THEN "ran"
                                  ELSE "failed: not configured">>)
    /\ UNCHANGED <<environ, boot_pc>>

BootNext == ImportApp \/ Lifespan \/ ServeIngestion \/ ServeAsk

----------------------------------------------------------------------------
(* has_sufficient_text_data, app/query_engine.py:37-64, and the test on    *)
(* it at the head of answer_query and generate_interview_questions.        *)
(* Chunks are texts over PageChars; the length threshold is the scaled one *)
(* of is_text_meaningful.                                                  *)

\* query_engine.py:55  flat_docs[:10] (scaled)
CHECKED_CHUNKS == 3
\* query_engine.py:64  meaningful_chunks >= 2
MIN_MEANINGFUL_CHUNKS == 2

\* chunks a document may have in the index: empty; letters with a stop
\* word; letters and digits without a stop word; a stop word and letters in
\* one whitespace-free token; digits and sentence ends only
IndexedChunks ==
    {<<>>,
     <<"t", "t", "t", " ", "t", "o">>,
     <<"t", "o", "o", " ", "1", "1">>,
     <<"t", "o", ".", "t", "t", "t">>,
     <<"1", " ", "1", " ", "1", ".">>}

ChunkListsUpTo(n) == UNION {[1..k -> IndexedChunks] : k \in 0..n}

\* the chunk test that asks what is_text_meaningful asks
chunk_counts_AsPageTest(chunk) == is_text_meaningful(chunk)

\* query_engine.py:56-60  the test a chunk passes to be counted
chunk_counts(chunk) ==
    /\ chunk # <<>>
    /\ Len(Strip(chunk)) > MIN_TEXT_LENGTH
    /\ HasLetterRun(chunk)
    /\ HasStopWord(chunk)

\* query_engine.py:54-61  meaningful_chunks over flat_docs[:10]
meaningful_chunks(chunks) ==
    Cardinality({i \in 1..Min(Len(chunks), CHECKED_CHUNKS) : chunk_counts(chunks[i])})

\* query_engine.py:37-64
has_sufficient_text_data(chunks) ==
    IF chunks = <<>> \/ \A i \in 1..Len(chunks) : chunks[i] = <<>>
    THEN FALSE
    ELSE meaningful_chunks(chunks) >= MIN_MEANINGFUL_CHUNKS

SufficientInit ==
    /\ hs_chunks \in ChunkListsUpTo(MaxIndexed)
    /\ hs_op = "none"
    /\ hs_ret = FALSE
    /\ hs_lazy = FALSE
    /\ hs_pc = "call"

SufficientIdle ==
    /\ hs_chunks = <<>>
    /\ hs_op = "none"
    /\ hs_ret = FALSE
    /\ hs_lazy = FALSE
    /\ hs_pc = "idle"

\* query_engine.py:186-187  answer_query, 321-322 generate_interview_questions:
\* if not has_sufficient_text_data(user_id, doc_id): on-the-fly indexing
HeadOfRequest(op) ==
    /\ hs_pc = "call"
    /\ hs_op' = op
    /\ hs_ret' = has_sufficient_text_data(hs_chunks)
    /\ hs_lazy' = ~has_sufficient_text_data(hs_chunks)
    /\ hs_pc' = "done"
    /\ UNCHANGED hs_chunks

SufficientNext == \E op \in {"answer", "interview"} : HeadOfRequest(op)

----------------------------------------------------------------------------
(* The specifications *)

InitChunk == ChunkInit /\ ExtractIdle /\ AnswerIdle /\ VectorIdle /\ ServiceIdle /\ MeaningIdle /\ RagIdle /\ BootIdle /\ SufficientIdle

SpecChunk ==
    InitChunk /\ [][ChunkNext /\ UNCHANGED <<extractVars, answerVars, vectorVars, serviceVars, meaningVars, ragVars, bootVars, sufficientVars>>]_vars

\* chunk_text run to its end: the call is one thread that takes its next
\* step whenever it has one
SpecChunkLive == SpecChunk /\ WF_chunkVars(ChunkNext)

InitExtract == ExtractInit /\ ChunkIdle /\ AnswerIdle /\ VectorIdle /\ ServiceIdle /\ MeaningIdle /\ RagIdle /\ BootIdle /\ SufficientIdle

SpecExtract ==
    InitExtract /\ [][ExtractNext /\ UNCHANGED <<chunkVars, answerVars, vectorVars, serviceVars, meaningVars, ragVars, bootVars, sufficientVars>>]_vars

InitAnswer == AnswerInit /\ ChunkIdle /\ ExtractIdle /\ VectorIdle /\ ServiceIdle /\ MeaningIdle /\ RagIdle /\ BootIdle /\ SufficientIdle

SpecAnswer ==
    InitAnswer /\ [][AnswerNext /\ UNCHANGED <<chunkVars, extractVars, vectorVars, serviceVars, meaningVars, ragVars, bootVars, sufficientVars>>]_vars

InitVector == VectorInit /\ ChunkIdle /\ ExtractIdle /\ AnswerIdle /\ ServiceIdle /\ MeaningIdle /\ RagIdle /\ BootIdle /\ SufficientIdle

SpecVector ==
    InitVector /\ [][VectorNext /\ UNCHANGED <<chunkVars, extractVars, answerVars, serviceVars, meaningVars, ragVars, bootVars, sufficientVars>>]_vars

\* the service; ex_cfg is whether the OCR service is configured
Init ==
    /\ ServiceInit
    /\ ChunkIdle /\ AnswerIdle /\ VectorIdle /\ MeaningIdle /\ RagIdle /\ BootIdle /\ SufficientIdle
    /\ ex_pdf = <<>> /\ ex_cfg \in BOOLEAN /\ ex_first = NoCall /\ ex_second = NoCall
    /\ ex_calls = <<>> /\ ex_pages = <<>> /\ ex_pc = "idle"

Next ==
    ServiceNext /\ UNCHANGED <<chunkVars, extractVars, answerVars, uuids, vx_last, meaningVars, ragVars, bootVars, sufficientVars>>

Spec == Init /\ [][Next]_vars

\* a step of the background task of upload request r
BgStep(r) ==
    /\ r \in 1..Len(uploads)
    /\ BgExtract(r) \/ BgPage(r) \/ BgFinal(r)
    /\ Next

\* the service with a scheduler that keeps running every queued task:
\* BackgroundTasks runs process_pdf_background after the response is sent
\* (routes_docs.py:292), and no step of the task waits for a request
SpecIngest == Spec /\ \A r \in 1..MaxUploads : WF_vars(BgStep(r))

SpecUploads ==
    Init /\ [][UploadsNext /\ UNCHANGED <<chunkVars, extractVars, answerVars, uuids, vx_last, meaningVars, ragVars, bootVars, sufficientVars>>]_vars

SpecAccess ==
    Init /\ [][AccessNext /\ UNCHANGED <<chunkVars, extractVars, answerVars, uuids, vx_last, meaningVars, ragVars, bootVars, sufficientVars>>]_vars

SpecValidate ==
    Init /\ [][ValidateNext /\ UNCHANGED <<chunkVars, extractVars, answerVars, uuids, vx_last, meaningVars, ragVars, bootVars, sufficientVars>>]_vars

InitBoot ==
    BootInit /\ ChunkIdle /\ ExtractIdle /\ AnswerIdle /\ VectorIdle /\ ServiceIdle /\ MeaningIdle /\ RagIdle /\ SufficientIdle

SpecBoot ==
    InitBoot /\ [][BootNext /\ UNCHANGED <<chunkVars, extractVars, answerVars, vectorVars, serviceVars, meaningVars, ragVars, sufficientVars>>]_vars

InitEngine ==
    /\ \/ AnswerInit /\ RagIdle
       \/ RagInit /\ AnswerIdle
    /\ ChunkIdle /\ ExtractIdle /\ VectorIdle /\ ServiceIdle /\ MeaningIdle /\ BootIdle
    /\ SufficientIdle

SpecEngine ==
    InitEngine /\ [][EngineNext /\ UNCHANGED <<chunkVars, extractVars, vectorVars, serviceVars, meaningVars, bootVars, sufficientVars>>]_vars

InitSufficient ==
    SufficientInit /\ ChunkIdle /\ ExtractIdle /\ AnswerIdle /\ VectorIdle /\ ServiceIdle /\ MeaningIdle /\ RagIdle /\ BootIdle

SpecSufficient ==
    InitSufficient /\ [][SufficientNext /\ UNCHANGED <<chunkVars, extractVars, answerVars, vectorVars, serviceVars, meaningVars, ragVars, bootVars>>]_vars

InitMeaning ==
    MeaningInit /\ ChunkIdle /\ ExtractIdle /\ AnswerIdle /\ VectorIdle /\ ServiceIdle /\ RagIdle /\ BootIdle /\ SufficientIdle

SpecMeaning ==
    InitMeaning /\ [][MeaningNext /\ UNCHANGED <<chunkVars, extractVars, answerVars, vectorVars, serviceVars, ragVars, bootVars, sufficientVars>>]_vars

----------------------------------------------------------------------------
(* chunk_text properties *)

\* index range of a chunk record in the ORIGINAL text ck_T, 0-based [lo, hi)
OrigLo(c) == LeadSpaces(ck_T) + c.lo
OrigHi(c) == LeadSpaces(ck_T) + c.lo + Len(c.text)

Covered(chunks, i) == \E k \in 1..Len(chunks) : OrigLo(chunks[k]) <= i /\ i < OrigHi(chunks[k])

\* each chunk after the first begins exactly ck_O before the end of the one before
OverlapChain(chunks) ==
    \A k \in 2..Len(chunks) : OrigLo(chunks[k]) = OrigHi(chunks[k - 1]) - ck_O

\* only the final chunk may be shorter than ck_S
FullButLast(chunks) ==
    \A k \in 1..Len(chunks) :
        /\ Len(chunks[k].text) <= ck_S
        /\ k < Len(chunks) => Len(chunks[k].text) = ck_S

\* C10 as stated: the returned chunks cover [0, len(T)) with no gaps and
\* every returned chunk after the first begins exactly O characters before
\* the end of the previously returned chunk.
C10_CoverageAsStated ==
    ck_pc = "done" =>
        /\ \A i \in 0..(Len(ck_T) - 1) : Covered(ck_ret, i)
        /\ OverlapChain(ck_ret)
        /\ FullButLast(ck_ret)

\* C10 amended: the sliding windows chunk_text computes over T.strip() cover
\* the stripped text with no gaps, each window after the first begins exactly
\* O characters before the end of the previous window and only the last one
\* may be shorter than S; the returned chunks are windows of T, in order of
\* start offset, and every character of T that no returned chunk covers is
\* whitespace (leading or trailing whitespace, or part of a window made only
\* of whitespace, which is discarded).
C10_CoverageOfStrippedText ==
    ck_pc = "done" =>
        /\ \A i \in 0..(Len(ck_T) - 1) :
              /\ (LeadSpaces(ck_T) <= i /\ i < Len(ck_T) - TrailSpaces(ck_T)
                    /\ LeadSpaces(ck_T) < Len(ck_T))
                     => Covered(ck_chunks, i)
              /\ ~IsSpace(ck_T[i + 1]) => Covered(ck_ret, i)
        /\ OverlapChain(ck_chunks)
        /\ FullButLast(ck_chunks)
        /\ \A k \in 1..Len(ck_ret) :
              /\ ck_ret[k].text = Slice(ck_T, OrigLo(ck_ret[k]), OrigHi(ck_ret[k]))
              /\ \E j \in 1..Len(ck_chunks) : ck_chunks[j] = ck_ret[k]
              /\ k > 1 => ck_ret[k - 1].lo < ck_ret[k].lo

\* a finished run on a text with leading whitespace in which an
\* all-whitespace window was discarded between two returned chunks
C10_Witness ==
    /\ ck_pc = "done"
    /\ LeadSpaces(ck_T) > 0
    /\ ck_O > 0
    /\ Len(ck_ret) >= 2
    /\ Len(ck_chunks) > Len(ck_ret)

----------------------------------------------------------------------------
(* extract_pages_text properties *)

AllPoor(pdf) == Len(pdf) > 0 /\ \A i \in 1..Len(pdf) : pdf[i] = "poor"

Retried == Len(ex_calls) = 2 /\ ex_calls[2] = TRUE

\* C8 as stated: when the text layer of every page is empty or not
\* meaningful, the extractor is invoked a second time with force_ocr=True,
\* whatever the OCR of the first invocation returned.
C8_RetryWheneverAllPoor ==
    (ex_pc = "accepted" /\ AllPoor(ex_pdf)) => Retried

\* C8 amended: the ingestion invokes the extractor a second time, with
\* force_ocr=True, exactly when the first invocation (text layer plus the OCR
\* it ran on the needs_ocr pages) returned no page with non-empty text; a
\* document whose text layer is poor on every page is therefore retried only
\* if the OCR of the first invocation read no text either.
C8_RetryIffFirstPassEmpty ==
    ex_pc = "accepted" =>
        /\ ex_calls[1] = FALSE
        /\ Len(ex_calls) <= 2
        /\ Retried <=> (\A i \in 1..Len(ex_first.results) :
                            ex_first.results[i].text = NoText)
        /\ ex_pages = IF Retried THEN ex_second.results ELSE ex_first.results

\* an all-poor document whose first invocation ran OCR, got no text, and
\* was retried with force_ocr=True
C8_Witness ==
    /\ ex_pc = "accepted"
    /\ AllPoor(ex_pdf)
    /\ Len(ex_first.ocrCalls) > 0
    /\ Retried

\* C9: in extract with force_ocr=false, OCR is invoked only for pages
\* classified needs_ocr (poor text layer); every page classified source=text
\* is returned with its text, source=text and confidence=100; every page
\* whose OCR call was made is replaced by the OCR outcome tagged "azure".
C9_OcrOnlyWhereNeeded ==
    ex_pc \in {"gate", "retry", "accepted"} =>
        LET res == ex_first.results
            calls == ex_first.ocrCalls
        IN  /\ \A k \in 1..Len(calls) :
                  /\ calls[k].page \in 1..Len(res)
                  /\ ex_pdf[calls[k].page] = "poor"
                  /\ res[calls[k].page].page = calls[k].page
                  /\ res[calls[k].page].source = "azure"
                  /\ res[calls[k].page].text =
                        IF calls[k].outcome = "text" THEN OcrText(calls[k].page) ELSE NoText
            /\ \A i \in 1..Len(res) :
                  ex_pdf[i] = "good" =>
                      res[i] = [page |-> i, text |-> LayerText(i),
                                source |-> "text", confidence |-> 100]
            /\ Len(res) \in {0, Min(Len(ex_pdf), MAX_PDF_PAGES)}

\* a first invocation on a document with a good page and a poor page in the
\* same batch, where the poor page was OCR'd and the good one kept
C9_Witness ==
    /\ ex_pc = "gate"
    /\ Len(ex_pdf) >= 2
    /\ ex_pdf[1] = "good" /\ ex_pdf[2] = "poor"
    /\ Len(ex_first.results) >= 2
    /\ ex_first.results[1].source = "text"
    /\ ex_first.results[2].source = "azure"
    /\ ex_first.results[2].text # NoText

----------------------------------------------------------------------------
(* answer_query properties *)

\* C5: when every returned match has distance > 0.7 the fixed refusal is
\* returned and the completion capability is never invoked; when the mean
\* distance of the returned matches is <= 0.7 (exactly 0.7 included) the
\* context is built from the matched chunks and the completion capability is
\* invoked.
C5_RelevanceGate ==
    (aq_pc = "done" /\ aq_queried /\ aq_matches # <<>>) =>
        /\ (\A k \in 1..Len(aq_matches) : aq_matches[k].distance > 70)
              => (aq_result = "refusal" /\ aq_completions = 0 /\ aq_context = <<>>)
        /\ (SumDistances(aq_matches) <= 70 * Len(aq_matches))
              => /\ aq_completions = 1
                 /\ aq_context = [k \in 1..Len(aq_matches) |-> aq_matches[k].text]
                 /\ aq_result \in {"answer", "refusal", "fallback"}

\* a finished call whose matches 0.40 and 1.00 have mean exactly 0.7 and
\* which went on to the completion
C5_Witness ==
    /\ aq_pc = "done"
    /\ aq_queried
    /\ Len(aq_matches) = 2
    /\ aq_matches[1].distance = 40 /\ aq_matches[2].distance = 100
    /\ aq_completions = 1
    /\ aq_result = "answer"

----------------------------------------------------------------------------
(* vector-store adapter properties *)

\* what a read for vx_last.user returned is all written for that user,
\* carries that user's user_id, and sits in a namespace that holds no vector
\* written for anybody else
ReadIsolated ==
    vx_last.op \in {"query", "get_all"} =>
        \A m \in vx_last.matches :
            /\ m \in index
            /\ m.for_user = vx_last.user
            /\ m.metadata.user_id = Str(vx_last.user)
            /\ m.metadata.doc_id = Str(vx_last.doc)
            /\ \A v \in index : v.for_user # vx_last.user => v.ns # m.ns

\* a write or delete issued for one user leaves the vectors written for
\* every other user as they were
WriteIsolated ==
    \A u \in Users :
        (vx_last'.op \in {"add", "delete"} /\ vx_last'.user # u)
            => {v \in index' : v.for_user = u} = {v \in index : v.for_user = u}

\* C4: a query issued for owner A returns only chunks written under A's
\* namespace with metadata user_id = A, also when another owner has chunks
\* under the same doc_id; no write or delete issued for A changes the chunks
\* of another owner.
C4_NamespaceIsolation == []ReadIsolated /\ [][WriteIsolated]_vars

\* both users hold chunks under doc_id 1, and a query by user 1 for doc 1
\* has just returned some
C4_Witness ==
    /\ vx_last.op = "query"
    /\ vx_last.user = 1 /\ vx_last.doc = 1
    /\ vx_last.matches # {}
    /\ \E v \in index : v.for_user = 2 /\ v.for_doc = 1
    /\ \E v \in index : v.for_user = 1 /\ v.for_doc = 1

----------------------------------------------------------------------------
(* Document status, duplicate uploads, deletion, chunk_count *)

\* the row with key d is the same row before and after the step
SameRow(d) ==
    docs[d] # NoDoc /\ docs'[d] # NoDoc /\ docs'[d].filename = docs[d].filename

StatusStep(d) ==
    /\ (docs[d] = NoDoc /\ docs'[d] # NoDoc)
          => docs'[d].status = "processing" /\ docs'[d].chunk_count = 0
    /\ SameRow(d)
          => \/ docs'[d].status = docs[d].status
             \/ /\ docs[d].status = "processing"
                /\ docs'[d].status \in {"processed", "failed"}

\* C1: a Document row is created with status processing and chunk_count 0;
\* afterwards its status changes only from processing to processed or to
\* failed, and a processed or failed row keeps its status in every step of
\* every operation.
C1_StatusStateMachine == [][\A d \in DocIds : StatusStep(d)]_vars

\* the upload request that arrived in this step
Arrived == uploads'[Len(uploads')]

\* C2: an upload is rejected as a duplicate exactly when a row with the
\* same owner and the same hash exists at its lookup, and a rejected upload
\* creates no row, no blob and no task, now or later; an upload that passed
\* the lookup (the first of these bytes by this owner, or the same bytes by
\* another owner) creates the row, the blob and the task, unless the blob
\* store refuses the write; and nothing but such an upload creates a row.
C2_SequentialDuplicate ==
    [][/\ Len(uploads') = Len(uploads) + 1 =>
            /\ Arrived.pc \in {"duplicate", "store"}
            /\ Arrived.pc = "duplicate" <=>
                  \E d \in DocRows : /\ docs[d].owner_id = Arrived.user
                                     /\ docs[d].file_hash = Hash(Arrived.content)
            /\ docs' = docs /\ blobs' = blobs
       /\ \A r \in 1..Len(uploads) :
            /\ uploads[r].pc = "duplicate" => uploads'[r] = uploads[r]
            /\ (uploads[r].pc = "store" /\ uploads'[r].pc # "store") =>
                  \/ uploads'[r].pc = "storage_error" /\ docs' = docs /\ blobs' = blobs
                  \/ /\ uploads'[r].pc = "extract"
                     /\ uploads'[r].doc \in DocIds
                     /\ docs[uploads'[r].doc] = NoDoc
                     /\ docs'[uploads'[r].doc].owner_id = uploads[r].user
                     /\ docs'[uploads'[r].doc].file_hash = Hash(uploads[r].content)
                     /\ r \in blobs'
       /\ \A d \in DocIds :
            (docs[d] = NoDoc /\ docs'[d] # NoDoc) =>
                \E r \in 1..Len(uploads) : /\ uploads[r].pc = "store"
                                           /\ uploads'[r].pc = "extract"
                                           /\ uploads'[r].doc = d]_vars

\* owner U uploaded B (row created), uploaded B again (rejected), and owner V
\* uploaded B (row created); both rows exist
C2_Witness ==
    /\ Len(uploads) = 3
    /\ uploads[1].user = uploads[2].user /\ uploads[3].user # uploads[1].user
    /\ uploads[1].content = uploads[2].content /\ uploads[3].content = uploads[1].content
    /\ uploads[1].pc = "extract" /\ uploads[2].pc = "duplicate" /\ uploads[3].pc = "extract"
    /\ docs[uploads[1].doc] # NoDoc /\ docs[uploads[3].doc] # NoDoc
    /\ uploads[1].doc # uploads[3].doc

\* C3: no two Document rows have the same (owner_id, file_hash).
C3_UniqueOwnerHash ==
    \A d1 \in DocRows, d2 \in DocRows :
        (d1 # d2) => ~(/\ docs[d1].owner_id = docs[d2].owner_id
                       /\ docs[d1].file_hash = docs[d2].file_hash)

EveryPageYields(pages) ==
    pages # <<>> /\ \A i \in 1..Len(pages) : PageChunks(pages[i]) # <<>>

\* the chunk_count read by polling never goes down
ChunkCountNonDecreasing ==
    \A d \in DocIds : SameRow(d) => docs'[d].chunk_count >= docs[d].chunk_count

\* a row in status processing has not reached the final value of its task
ProcessingBelowFinal ==
    \A r \in 1..Len(uploads) :
        LET t == uploads[r] IN
        (/\ t.pc \in {"pages", "final"}
         /\ EveryPageYields(t.pages)
         /\ docs[t.doc] # NoDoc /\ docs[t.doc].filename = r
         /\ docs[t.doc].status = "processing")
            => docs[t.doc].chunk_count < CountChunks(t.pages)

\* a row that becomes processed has the final value of its task
ProcessedAtFinal ==
    \A r \in 1..Len(uploads) :
        LET t == uploads[r] IN
        (/\ t.pc = "final" /\ uploads'[r].pc = "done"
         /\ EveryPageYields(t.pages)
         /\ SameRow(t.doc) /\ docs[t.doc].filename = r
         /\ docs'[t.doc].status = "processed")
            => docs'[t.doc].chunk_count = CountChunks(t.pages)

\* C7: while a document whose pages all yield chunks is ingested, the
\* chunk_count read by polling never goes down, no state has status
\* processing with chunk_count at the final value, and the row becomes
\* processed with exactly the final value.
C7_ChunkCountExactlyAtProcessed ==
    /\ [][ChunkCountNonDecreasing /\ ProcessedAtFinal]_vars
    /\ []ProcessingBelowFinal

----------------------------------------------------------------------------
(* is_text_meaningful properties *)

\* the number of whitespace-separated tokens: the positions where a token
\* begins
TokenCount(t) ==
    Cardinality({i \in 1..Len(t) : ~IsSpace(t[i]) /\ (i = 1 \/ IsSpace(t[i - 1]))})

\* which of the four patterns a text matches
PatternsOf(t) ==
    {p \in {"letters", "stopword", "sentence", "digit"} :
        \/ p = "letters" /\ HasLetterRun(t)
        \/ p = "stopword" /\ HasStopWord(t)
        \/ p = "sentence" /\ HasSentenceEnd(t)
        \/ p = "digit" /\ HasDigit(t)}

\* the four conditions of the classification, on a text s
MeaningfulConditions(s) ==
    /\ Len(s) >= MIN_TEXT_LENGTH
    /\ TokenCount(s) >= MIN_WORDS
    /\ Cardinality(PatternsOf(s)) >= MIN_PATTERNS
    /\ 100 * alpha_chars(s) >= MIN_ALPHA_PERCENT * Len(s)

\* C11 as stated: is_text_meaningful(text) is true if and only if the text
\* has the minimum length, the minimum number of tokens, two of the four
\* patterns and an alphabetic ratio of at least 0.40; it is false for every
\* text below the minimum length and true for every text with the minimum
\* length and number of tokens, all four patterns and the ratio.
C11_MeaningfulAsStated ==
    mt_pc = "done" =>
        /\ mt_ret <=> MeaningfulConditions(mt_text)
        /\ Len(mt_text) < MIN_TEXT_LENGTH => ~mt_ret
        /\ (MeaningfulConditions(mt_text) /\ Cardinality(PatternsOf(mt_text)) = 4) => mt_ret

\* C11 amended: is_text_meaningful(text) is true if and only if text.strip()
\* has the minimum length, the minimum number of tokens, two of the four
\* patterns and an alphabetic ratio of at least 0.40, the length and the
\* ratio being those of the stripped text; it is false for every text below
\* the minimum length, and true for every text whose stripped form has the
\* minimum length and number of tokens, all four patterns and the ratio.
C11_MeaningfulOfStripped ==
    mt_pc = "done" =>
        /\ mt_ret <=> MeaningfulConditions(Strip(mt_text))
        /\ Len(mt_text) < MIN_TEXT_LENGTH => ~mt_ret
        /\ (MeaningfulConditions(Strip(mt_text))
              /\ Cardinality(PatternsOf(Strip(mt_text))) = 4) => mt_ret

\* a text with surrounding whitespace was classified meaningful although
\* less than 40% of its characters, whitespace included, are alphabetic
C11_Witness ==
    /\ mt_pc = "done"
    /\ mt_ret
    /\ Len(Strip(mt_text)) < Len(mt_text)
    /\ 100 * alpha_chars(mt_text) < MIN_ALPHA_PERCENT * Len(mt_text)

----------------------------------------------------------------------------
(* Requests on documents of other users *)

\* the stored state: rows, blobs, requests and tasks, conversations,
\* interview sessions and chunks
Stores == <<docs, next_doc_id, blobs, uploads, convs, isess, index>>

\* document d is missing or belongs to somebody else than u
Foreign(u, d) == docs[d] = NoDoc \/ docs[d].owner_id # u

\* the answer to a request on a document that is missing or not the user's
NotFound404(op, u, d) ==
    [op |-> op, user |-> u, doc |-> d, file |-> NoFile, status |-> 404,
     detail |-> "Document not found"]

\* C12: for get, delete, ask, summarize and interview_questions a request by
\* user U on a document of another user V is answered exactly like a request
\* on a document id that does not exist (404, "Document not found"), no
\* handler does anything else for such a request, and the request changes no
\* row, blob, chunk, conversation or interview session.
C12_ForeignIsNotFound ==
    /\ [][(resp' # NoResp /\ resp'.op \in DocHandlers) =>
              /\ Foreign(resp'.user, resp'.doc)
              /\ resp' = NotFound404(resp'.op, resp'.user, resp'.doc)
              /\ UNCHANGED Stores]_vars
    /\ [](\A u \in Users, d \in DocIds :
              Foreign(u, d) =>
                  /\ \A op \in DocHandlers : ENABLED DocumentNotFound(op, u, d)
                  /\ ~ENABLED GetDocument(u, d)
                  /\ ~ENABLED DeleteDocument(u, d)
                  /\ ~ENABLED Ask(u, d)
                  /\ ~ENABLED Summarize(u, d)
                  /\ ~ENABLED InterviewQuestions(u, d))

\* a user asked to delete a document of another user that has chunks and a
\* conversation, and was told that it does not exist
C12_Witness ==
    /\ resp.op = "delete_document" /\ resp.status = 404
    /\ docs[resp.doc] # NoDoc
    /\ docs[resp.doc].owner_id # resp.user
    /\ FilterMatches(index, docs[resp.doc].owner_id, resp.doc) # {}
    /\ resp.doc \in convs

----------------------------------------------------------------------------
(* Chunks of deleted documents *)

\* no background ingestion task is running
AllTasksFinished ==
    \A r \in 1..Len(uploads) : uploads[r].pc \notin {"extract", "pages", "final"}

\* C13: once delete(owner, doc) has returned without a vector-store error
\* and every background ingestion task has finished, the vector store holds
\* no chunk with that doc_id in the namespace of that owner.
C13_NoOrphanChunks ==
    AllTasksFinished =>
        \A p \in purged : FilterMatches(index, p[1], p[2]) = {}

----------------------------------------------------------------------------
\* C14: ask, summarize and interview_questions never let an exception past
\* the answering function, and a returned explanation or error field never
\* carries the text of the provider's exception.
C14_NoExceptionNoRawError ==
    /\ aq_result \notin {"exception", "failed_processing"}
    /\ rg_result.kind # "raised"
    /\ ~rg_result.error.raw

----------------------------------------------------------------------------
\* the causes of refusal, with the reason given to the client
EmptyFile(file) == file.size = 0
NoPdfExtension(file) == ~file.pdf_name
DisallowedType(file) ==
    file.content_type \notin {"", "application/pdf", "application/octet-stream"}
Oversize(file) == file.size > MAX_FILE_SIZE
Unparsable(file) == file.size > 0 /\ ~file.parses
DuplicateOf(user_id, file) ==
    \E d \in DocRows : /\ docs[d].owner_id = user_id
                       /\ docs[d].file_hash = Hash(file.content)

ReasonFits(user_id, file, detail) ==
    \/ EmptyFile(file) /\ detail = "Uploaded file is empty"
    \/ NoPdfExtension(file)
          /\ detail = "Only PDF files are supported (missing .pdf extension)"
    \/ DisallowedType(file) /\ detail = "Invalid file type. Only PDF files are allowed."
    \/ Oversize(file) /\ detail = "File too large. Maximum size allowed is 100MB"
    \/ Unparsable(file)
          /\ detail = "Invalid file content. The file must be a valid PDF document."
    \/ DuplicateOf(user_id, file) /\ detail = "This PDF has already been uploaded."

\* the requests whose background task was queued (and may have run)
QueuedTasks(reqs) ==
    {r \in 1..Len(reqs) : reqs[r].pc \notin {"store", "duplicate", "storage_error"}}

\* C15: an upload that is empty, lacks the .pdf extension, has a disallowed
\* content type, is over the size limit, does not parse as a PDF, or
\* duplicates a row of its owner is answered 400 within the request, with
\* the reason of a cause it has, and the Document table, the blob store and
\* the queued tasks are as before; such a file never passes on to the blob
\* write and the insert.
C15_InvalidUploadRefused ==
    /\ [](\A file \in Files :
            (EmptyFile(file) \/ NoPdfExtension(file) \/ DisallowedType(file)
                \/ Oversize(file) \/ Unparsable(file))
            => /\ upload_refusal(file) # "ok"
               /\ \A u \in Users : ReasonFits(u, file, upload_refusal(file)))
    /\ [][/\ (resp'.op = "upload_pdf" /\ resp'.status = 400) =>
               /\ ReasonFits(resp'.user, resp'.file, resp'.detail)
               /\ docs' = docs /\ next_doc_id' = next_doc_id /\ blobs' = blobs
               /\ index' = index
               /\ QueuedTasks(uploads') = QueuedTasks(uploads)
               /\ \A r \in 1..Len(uploads) : uploads'[r] = uploads[r]
          /\ Len(uploads') = Len(uploads) + 1 =>
               IF DuplicateOf(Arrived.user, ValidFile(Arrived.content))
               THEN /\ Arrived.pc = "duplicate"
                    /\ resp'.op = "upload_pdf" /\ resp'.status = 400
                    /\ resp'.detail = "This PDF has already been uploaded."
               ELSE Arrived.pc = "store" /\ resp' = NoResp
          /\ \A r \in 1..Len(uploads) :
               uploads[r].pc = "duplicate" => uploads'[r] = uploads[r]]_vars

\* an oversize file was refused with the size reason while a row, its blob
\* and its task exist
C15_Witness ==
    /\ resp.op = "upload_pdf" /\ resp.status = 400
    /\ Oversize(resp.file) /\ resp.file.pdf_name /\ ~DisallowedType(resp.file)
    /\ resp.detail = "File too large. Maximum size allowed is 100MB"
    /\ DocRows # {} /\ blobs # {} /\ QueuedTasks(uploads) # {}

----------------------------------------------------------------------------
\* C16: with a provider credential missing (embedding/completion key,
\* vector-store key or index name, OCR endpoint or key) the process never
\* serves, and no operation of a serving process fails for want of a
\* credential.
C16_MissingCredentialNeverServes ==
    /\ boot_pc = "serving" => \A name \in Credentials : Truthy(environ, name)
    /\ \A i \in 1..Len(rt_log) : rt_log[i][2] # "failed: not configured"

----------------------------------------------------------------------------
\* C17: interview_questions returns a non-empty questions list without an
\* error, or an empty list with an error, and nothing else; an
\* InterviewSession is stored only for a non-empty list without an error.
C17_QuestionsOrError ==
    (rg_op = "interview_questions" /\ rg_pc = "done") =>
        /\ rg_result.kind = "dict"
        /\ \/ rg_result.questions # <<>> /\ rg_result.error = NoError
           \/ rg_result.questions = <<>> /\ rg_result.error # NoError
        /\ rg_stored => (rg_result.questions # <<>> /\ rg_result.error = NoError)

----------------------------------------------------------------------------
\* text t is the beginning of text full
IsPrefix(t, full) == Len(t) <= Len(full) /\ \A i \in 1..Len(t) : t[i] = full[i]

\* the chunks whose characters occur in text t
ChunksIn(t) == {t[i][1] : i \in 1..Len(t)} \ {"sep"}

\* the completion was called and raised, or there is no client to call
CompletionFailed(llm) == llm = "raise" \/ (~client_configured /\ llm = "none")

\* C18: with content retrieved and the completion raising or not
\* configured, summarize returns a text labelled as a fallback whose excerpt
\* has at most 1000 characters, taken in order from the first 3 chunks
\* (joined by blanks), and answer_query, once past the relevance gate,
\* returns a text labelled as a fallback whose excerpt is the first 1000
\* characters of the assembled context at most; neither raises nor returns
\* the provider's error.
C18_FallbackExcerpt ==
    /\ (rg_op = "summarize" /\ rg_pc = "done" /\ rg_flat # <<>>
            /\ CompletionFailed(rg_llm)) =>
          /\ rg_result.kind = "fallback"
          /\ rg_result.error = NoError
          /\ Len(rg_result.excerpt) <= FALLBACK_CHARS
          /\ ChunksIn(rg_result.excerpt)
                \subseteq {rg_flat[k] : k \in 1..Min(FALLBACK_CHUNKS, Len(rg_flat))}
          /\ \E n \in 1..FALLBACK_CHUNKS :
                IsPrefix(rg_result.excerpt, Join(SubSeq(rg_flat, 1, Min(n, Len(rg_flat))),
                                                 <<Blank>>))
    /\ (aq_pc = "done" /\ aq_context # <<>> /\ CompletionFailed(aq_llm)
            /\ aq_result \notin {"no_information", "refusal"}) =>
          /\ aq_result = "fallback"
          /\ Len(aq_excerpt) <= FALLBACK_CHARS
          /\ IsPrefix(aq_excerpt, Join(aq_context, <<Newline, Newline>>))
          /\ Len(aq_excerpt) = Min(FALLBACK_CHARS,
                                   Len(Join(aq_context, <<Newline, Newline>>)))

\* summarize fell back on four chunks after the completion raised: the
\* excerpt is full, and cut short of the third chunk
C18_Witness ==
    /\ rg_op = "summarize" /\ rg_pc = "done" /\ rg_llm = "raise"
    /\ Len(rg_flat) = 4
    /\ rg_result.kind = "fallback"
    /\ Len(rg_result.excerpt) = FALLBACK_CHARS
    /\ Len(rg_result.excerpt) < Len(Join(SubSeq(rg_flat, 1, 3), <<Blank>>))

----------------------------------------------------------------------------
\* the background task of request r ended in its except branch in this step
TaskFailed(r) == uploads[r].pc \in {"extract", "pages"} /\ uploads'[r].pc = "done"

\* C19: when a step of a background ingestion raises, the document (if its
\* row still exists) is left with status failed and with the chunk_count
\* reached before the failure, which is the number of chunks stored for the
\* document in the vector store.
C19_FailedKeepsCount ==
    [][\A r \in 1..Len(uploads) :
          (TaskFailed(r) /\ docs'[uploads[r].doc] # NoDoc) =>
              LET d == uploads[r].doc
              IN  /\ docs'[d].status = "failed"
                  /\ docs'[d].chunk_count = uploads[r].total
                  /\ docs'[d].chunk_count =
                        Cardinality(FilterMatches(index', docs'[d].owner_id, d))]_vars

----------------------------------------------------------------------------
\* C20: with the OCR service unreachable or not configured, extract returns
\* normally: every page whose OCR could not run is recorded with empty text
\* and confidence 0, and every page with a meaningful text layer is
\* returned with source=text.
C20_OcrFailureTolerated ==
    /\ ex_pc # "raised"
    /\ ex_pc \in {"gate", "retry", "accepted"} =>
        LET res == ex_first.results
            calls == ex_first.ocrCalls
        IN  /\ \A k \in 1..Len(calls) :
                  calls[k].outcome = "raise" =>
                      /\ res[calls[k].page].text = NoText
                      /\ res[calls[k].page].confidence = 0
            /\ \A i \in 1..Len(res) :
                  ex_pdf[i] = "good" =>
                      res[i].text = LayerText(i) /\ res[i].source = "text"

----------------------------------------------------------------------------
\* the render requests of an invocation after its request number k
LaterRenders(call, k) == {j \in 1..Len(call.renders) : j > k}

\* the OCR calls of an invocation on pages of batches after the one that
\* starts at page index batch_start
LaterOcrCalls(call, batch_start) ==
    {j \in 1..Len(call.ocrCalls) :
        call.ocrCalls[j].page > batch_start + PROCESS_PAGES_BATCH_SIZE}

\* C21: when the rendering of a batch fails (primary and fallback renderer
\* both failed) extraction is aborted: no later batch is rendered or OCR'd,
\* and the pages resolved so far are returned.
C21_RenderFailureAborts ==
    \A call \in {ex_first, ex_second} :
        \A k \in 1..Len(call.renders) :
            call.renders[k].outcome = "fail" =>
                /\ LaterRenders(call, k) = {}
                /\ LaterOcrCalls(call, call.renders[k].start) = {}

----------------------------------------------------------------------------
\* the entries a step puts into the index
Written == index' \ index

\* C22: over any sequence of add_chunks calls for a document (every
\* ingestion run writes through add_chunks), each chunk written gets an id
\* that no earlier write used: the uuid in it was drawn after every uuid of
\* an earlier write, the chunks of one call get ids of their own, and a
\* write leaves every entry of an earlier run in place and unchanged.
C22_FreshIdPerWrite ==
    /\ [](\A v \in index : v.id[2] \in 1..uuids)
    /\ [][vx_last'.op = "add" =>
            /\ \A v \in Written : v.id[2] > uuids /\ v.id[2] <= uuids'
            /\ \A v \in Written, w \in index : ~(v.ns = w.ns /\ v.id = w.id)
            /\ \A v \in Written, w \in Written : (v.ns = w.ns /\ v.id = w.id) => v = w
            /\ index \subseteq index']_vars

\* two runs for the same document of the same user have both written their
\* first chunk: same doc_id, same position, two entries
C22_Witness ==
    \E v \in index, w \in index :
        /\ v # w
        /\ v.ns = w.ns /\ v.for_doc = w.for_doc
        /\ v.id[3] = 0 /\ w.id[3] = 0
        /\ v.metadata.text = w.metadata.text

\* C23: every chunk stored under the namespace of a user carries that
\* user's id as user_id and the id of the document it was written for as
\* doc_id, whatever doc_id and user_id the caller's metadata held.
C23_MetadataMatchesOwner ==
    \A v \in index :
        /\ v.ns = _get_namespace(v.for_user)
        /\ v.metadata.user_id = Str(v.for_user)
        /\ v.metadata.doc_id = Str(v.for_doc)
        /\ v.id[1] = v.for_doc

\* a call for user 1 and document 1 whose caller passed doc_id "2" and
\* user_id "2" in its metadata has stored a chunk
C23_Witness ==
    /\ vx_last.op = "add" /\ vx_last.outcome = "ok"
    /\ vx_last.user = 1 /\ vx_last.doc = 1
    /\ vx_last.meta = [doc_id |-> "2", user_id |-> "2"]
    /\ \E v \in index : v.for_user = 1 /\ v.for_doc = 1 /\ v.metadata.user_id = "1"

----------------------------------------------------------------------------
(* has_sufficient_text_data properties *)

\* the indexed chunks that is_text_meaningful accepts
MeaningfulIndexed(chunks) == {i \in 1..Len(chunks) : is_text_meaningful(chunks[i])}

\* C24: has_sufficient_text_data is true exactly when at least 2 of the
\* document's indexed chunks are meaningful under the test of
\* is_text_meaningful, and answer and interview_questions go into the
\* on-the-fly indexing exactly when it is false.
C24_SufficientIffTwoMeaningful ==
    hs_pc = "done" =>
        /\ hs_ret = (Cardinality(MeaningfulIndexed(hs_chunks)) >= MIN_MEANINGFUL_CHUNKS)
        /\ hs_lazy = ~hs_ret

----------------------------------------------------------------------------
(* embedding dimension properties *)

\* embeddings.py:8  EMBEDDING_DIMENSIONS = 1536 (scaled)
EMBEDDING_DIMENSIONS == 2

\* embeddings.py:37-50  get_embedding(text) when it returns: [] for text that
\* is empty after strip(), else the provider's vector
get_embedding(text) ==
    IF text = "blank" THEN <<>> ELSE [i \in 1..EMBEDDING_DIMENSIONS |-> 0]

\* query_engine.py:241  query_embedding = get_embedding(question)
query_embedding == get_embedding(aq_question)

\* C25: every vector that reaches the vector store has the configured
\* embedding dimension; in particular the query vector that answer_query
\* hands to the store's query is never the empty vector of a blank
\* question.
C25_QueryVectorHasDimension ==
    [][AqQuery => Len(query_embedding) = EMBEDDING_DIMENSIONS]_vars

\* the page numbers of a returned list are distinct and ascending
PagesAscending(results) ==
    \A i \in 1..Len(results), j \in 1..Len(results) :
        i < j => results[i].page < results[j].page

\* C26: for every PDF and both values of force_ocr, extract_pages_text
\* returns at most MAX_PDF_PAGES results whose page numbers lie in
\* 1..MAX_PDF_PAGES and ascend strictly, makes no OCR call on a page beyond
\* MAX_PDF_PAGES, and no render request asks for more than
\* PROCESS_PAGES_BATCH_SIZE pages.
C26_PageAndBatchCaps ==
    \A call \in {ex_first, ex_second} :
        /\ Len(call.results) <= MAX_PDF_PAGES
        /\ \A i \in 1..Len(call.results) : call.results[i].page \in 1..MAX_PDF_PAGES
        /\ PagesAscending(call.results)
        /\ \A k \in 1..Len(call.ocrCalls) : call.ocrCalls[k].page \in 1..MAX_PDF_PAGES
        /\ \A k \in 1..Len(call.renders) :
            call.renders[k].max_pages \in 1..PROCESS_PAGES_BATCH_SIZE

\* a PDF with more pages than MAX_PDF_PAGES went through both passes: each
\* returned MAX_PDF_PAGES results, the forced pass made an OCR call on the
\* last permitted page and both asked for a full batch
C26_Witness ==
    /\ ex_pc = "accepted"
    /\ Len(ex_pdf) > MAX_PDF_PAGES
    /\ Len(ex_first.results) = MAX_PDF_PAGES
    /\ Len(ex_second.results) = MAX_PDF_PAGES
    /\ \E k \in 1..Len(ex_second.ocrCalls) : ex_second.ocrCalls[k].page = MAX_PDF_PAGES
    /\ \E k \in 1..Len(ex_first.renders) :
        ex_first.renders[k].max_pages = PROCESS_PAGES_BATCH_SIZE
    /\ \E k \in 1..Len(ex_second.renders) :
        ex_second.renders[k].max_pages = PROCESS_PAGES_BATCH_SIZE

----------------------------------------------------------------------------
(* termination of the background task *)

\* the task of upload request r is queued or running
Queued(r) == r <= Len(uploads) /\ uploads[r].pc \in {"extract", "pages", "final"}

\* the task of upload request r has returned
Terminated(r) == r <= Len(uploads) /\ uploads[r].pc = "done"

\* the row that upload request r inserted still exists
OwnRowExists(r) == uploads[r].doc \in DocIds /\ docs[uploads[r].doc].filename = r

\* every queued task terminates
TasksTerminate == \A r \in 1..MaxUploads : [](Queued(r) => <>Terminated(r))

\* C27: under fair scheduling every queued background ingestion task
\* terminates, and once it has terminated its document, if the row still
\* exists, has status processed or failed, never processing, also when the
\* write of a status update fails.
C27_TasksEndSettled ==
    /\ TasksTerminate
    /\ [](\A r \in 1..Len(uploads) :
            (Terminated(r) /\ OwnRowExists(r)) =>
                docs[uploads[r].doc].status \in {"processed", "failed"})

----------------------------------------------------------------------------
(* stored chunks and chunk_count *)

\* the chunks stored for document d in the namespace of its owner
StoredFor(d) ==
    {v \in index : v.ns = _get_namespace(docs[d].owner_id) /\ v.metadata.doc_id = Str(d)}

\* C28: whenever a document has status processed, the number of chunks
\* stored for its doc_id in the owner's namespace equals its chunk_count,
\* also when a summarize request indexed the document on the fly while the
\* background ingestion was in progress.
C28_ProcessedCountMatchesStore ==
    \A d \in DocIds :
        docs[d].status = "processed" => Cardinality(StoredFor(d)) = docs[d].chunk_count

----------------------------------------------------------------------------
(* termination and contract of chunk_text *)

\* what chunk_text returned: strings that are non-empty after strip(), of
\* length at most CHUNK_SIZE, in ascending order of start offset, and
\* nothing for a text that is empty or only whitespace
ContractOfReturn ==
    /\ \A k \in 1..Len(ck_ret) :
          /\ Strip(ck_ret[k].text) # <<>>
          /\ Len(ck_ret[k].text) <= ck_S
          /\ k > 1 => ck_ret[k - 1].lo < ck_ret[k].lo
    /\ Strip(ck_T) = <<>> => ck_ret = <<>>

\* C29: with CHUNK_OVERLAP < CHUNK_SIZE chunk_text terminates for every
\* text, and returns, in order of start offset, only strings that are
\* non-empty after trimming whitespace and no longer than CHUNK_SIZE; an
\* empty or whitespace-only text yields the empty sequence.
C29_TerminatesWithContract ==
    /\ <>(ck_pc = "done")
    /\ [](ck_pc = "done" => ContractOfReturn)

\* a finished call that went round the loop at least three times, returned
\* at least two chunks and dropped a window made only of whitespace
C29_Witness ==
    /\ ck_pc = "done"
    /\ ck_O < ck_S
    /\ Len(ck_chunks) >= 3
    /\ Len(ck_ret) >= 2
    /\ Len(ck_ret) < Len(ck_chunks)

----------------------------------------------------------------------------
(* ingestion of a document without text *)

\* no page of an extraction has text
Textless(pages) == \A i \in 1..Len(pages) : pages[i].text = NoText

\* the step in which the task of upload request r makes its final update
\* and returns, after an extraction in which nothing failed and with a
\* session that did not raise, while the row it was queued for exists
TextlessTaskEnds(r) ==
    /\ uploads[r].pc = "final" /\ uploads'[r].pc = "done"
    /\ uploads[r].pages \in NormalPages[uploads[r].content]
    /\ Textless(uploads[r].pages)
    /\ Sound
    /\ OwnRowExists(r)

\* C30: a document for which neither the normal extraction nor the
\* forced-OCR retry yields non-empty page text, and for which no step
\* raises, ends with status processed and chunk_count 0 and has no chunk in
\* the vector store; it is not marked failed.
C30_TextlessEndsProcessedEmpty ==
    [][\A r \in 1..Len(uploads) :
        TextlessTaskEnds(r) =>
            /\ docs'[uploads[r].doc].status = "processed"
            /\ docs'[uploads[r].doc].chunk_count = 0
            /\ {v \in index' : /\ v.ns = _get_namespace(uploads[r].user)
                               /\ v.metadata.doc_id = Str(uploads[r].doc)} = {}]_vars

====
